---- MODULE Spec2Model ----
(***************************************************************************)
(* Autosave / data-synchronisation layer of the portfolio editor:          *)
(* EnhancedPortfolioDataService (debounced autoSave, saveElement,          *)
(* clearAllAutoSaveTimeouts), DataValidator.validateText and the backend    *)
(* upsert_portfolio_data / get_portfolio_data functions with their          *)
(* triggers.                                                                *)
(*                                                                         *)
(* Time is counted in ticks of 1000 ms.  The host is a single-threaded      *)
(* event loop: every action below is one run-to-completion task (a user     *)
(* event, a timer callback up to its first await, or the continuation of    *)
(* an await).                                                               *)
(***************************************************************************)
EXTENDS Integers, Sequences, FiniteSets, TLC

VARIABLES
  now,               \* current time, in ticks
  session,           \* TRUE iff supabase.auth.getSession() yields a session
  pendingChanges,    \* Map<string, any>: key -> buffered value
  autoSaveTimeouts,  \* Map<string, Timeout>: key -> timer handle
  timers,            \* the host's timer table: the timers that are scheduled
  nextHandle,        \* the handle the next setTimeout returns
  calls,             \* the saveElement invocations in flight, oldest first
  lastReturn,        \* the saveElement invocation that returned last
  store,             \* backend table portfolio_data_v2, one row per identity
  events,            \* ChangeEvents emitted so far, in order
  mon,               \* per key: what was edited and flushed so far (history)
  used,              \* weight of the operations so far (history)
  changeListeners,   \* the subscribed callbacks, in subscription order
  lastDelivery,      \* the last emitDataChange: who was subscribed, who was called
  backups,           \* backend table portfolio_data_backup
  localData,         \* the page's portfolioData map: key -> value
  lastOp,            \* the last deleteElement, bulkSave or share-link operation
  formShares,        \* backend table form_shares: the row of the share link
  validations,       \* share-link validations performed so far (history)
  draft,             \* the text handed to DataValidator.validateText
  verdicts,          \* the ValidationResults of the successive validateText calls
  backendVerdict,    \* what validate_portfolio_data made of the sanitized text
  auth,              \* AuthProvider's state: user, session, userRole, isGuest
  signOuts,          \* the signOut calls suspended at await supabase.auth.signOut()
  lastAuth,          \* the AuthProvider operation that completed last (history)
  pendingCount,      \* the page hook's pendingChanges counter shown to the user
  formListeners,     \* RealTimeFormService.changeListeners.get(formId), <<>> if absent
  channelMode,       \* what supabase.channel(name) does for a name in use
  channels,          \* the open realtime channels: id -> handlers bound to it
  subscriptions,     \* one record per subscribeToForm call, in order (history)
  lastChange         \* the last backend change notification and its delivery

autoVars == <<now, session, pendingChanges, autoSaveTimeouts, timers, nextHandle,
              calls, lastReturn, store, events, mon, used>>

busVars == <<changeListeners, lastDelivery>>

opVars == <<backups, localData, lastOp>>

shareVars == <<formShares, validations>>

validatorVars == <<draft, verdicts, backendVerdict>>

authVars == <<auth, signOuts, lastAuth>>

hookVars == <<pendingCount>>

realtimeVars == <<channelMode, formListeners, channels, subscriptions, lastChange>>

pageVars == <<validatorVars, authVars, hookVars, realtimeVars>>

vars == <<autoVars, busVars, opVars, shareVars, pageVars>>

----------------------------------------------------------------------------
(* Bounds of the model *)

\* the clock stops at MaxTime; the operations of the user and the environment
\* in a run weigh at most MaxOps together: an autoSave call, a
\* clearAllAutoSaveTimeouts call, a session change and a network fault weigh 1,
\* a direct saveElement call (which has twelve possible inputs) weighs 2
MaxTime == 5
MaxOps == 3

----------------------------------------------------------------------------
(* Values.  A JavaScript value is a record: kind "str" is a string made of  *)
(* the characters of body followed by fill copies of the letter "x" (fill   *)
(* lets a string be longer than maxLength without listing its characters);  *)
(* kind "obj" is an object whose JSON.stringify length is fill.             *)

Str(body, fill) == [kind |-> "str", body |-> body, fill |-> fill]
Obj(size) == [kind |-> "obj", body |-> <<>>, fill |-> size]
Null == [kind |-> "null", body |-> <<>>, fill |-> 0]
Undefined == [kind |-> "undefined", body |-> <<>>, fill |-> 0]

Length(v) == Len(v.body) + v.fill

\* JavaScript truthiness of a value (the empty string, null, undefined are falsy)
Truthy(v) ==
  CASE v.kind = "str" -> Length(v) > 0
    [] v.kind = "obj" -> TRUE
    [] OTHER -> FALSE

\* an || that forgets its second operand
First(a, b) == a

\* a || b
OrElse(a, b) == IF Truthy(a) THEN a ELSE b

Min(S) == CHOOSE x \in S : \A y \in S : x <= y
Max(S) == CHOOSE x \in S : \A y \in S : x >= y

----------------------------------------------------------------------------
(* Characters and the regular expressions of the sanitizers *)

Uppers == <<"A","B","C","D","E","F","G","H","I","J","K","L","M",
            "N","O","P","Q","R","S","T","U","V","W","X","Y","Z">>
Lowers == <<"a","b","c","d","e","f","g","h","i","j","k","l","m",
            "n","o","p","q","r","s","t","u","v","w","x","y","z">>
Digits == {"0","1","2","3","4","5","6","7","8","9"}

UpperSet == {Uppers[i] : i \in 1..26}
LowerSet == {Lowers[i] : i \in 1..26}
LowerOf == [u \in UpperSet |-> Lowers[CHOOSE i \in 1..26 : Uppers[i] = u]]

\* the i flag: compare letters without case
Lower(c) == IF c \in UpperSet THEN LowerOf[c] ELSE c

\* \w
WordChars == UpperSet \cup LowerSet \cup Digits \cup {"_"}
IsWordChar(c) == c \in WordChars

\* \s
IsSpace(c) == c \in {" ", "\t", "\n", "\r"}

\* the literal w (lower case) occurs in s at position i, ignoring case
MatchesAt(s, i, w) ==
  /\ i >= 1
  /\ i + Len(w) - 1 <= Len(s)
  /\ \A j \in 1..Len(w) : Lower(s[i + j - 1]) = w[j]

ScriptOpen == <<"<","s","c","r","i","p","t">>
ScriptClose == <<"<","/","s","c","r","i","p","t",">">>
JsProtocol == <<"j","a","v","a","s","c","r","i","p","t",":">>

\* /<script[^>]*>.*?<\/script>/ tried at position i: the position of the last
\* character of the match, or 0 when there is no match at i.  dotAll is FALSE
\* for JavaScript (. matches no line end, .*? stops at the first close tag) and
\* TRUE for PostgreSQL's regexp_replace (. matches a line end, and the whole
\* expression is greedy because its first quantifier [^>]* is, so the match
\* runs to the last close tag).
ScriptMatchEnd(s, i, dotAll) ==
  IF ~MatchesAt(s, i, ScriptOpen) THEN 0
  ELSE LET gts == {j \in (i + 7)..Len(s) : s[j] = ">"} IN
       IF gts = {} THEN 0
       ELSE LET j == Min(gts)
                closes == {m \in (j + 1)..Len(s) :
                             /\ MatchesAt(s, m, ScriptClose)
                             /\ dotAll \/ \A n \in (j + 1)..(m - 1) :
                                             s[n] \notin {"\n", "\r"}}
            IN IF closes = {} THEN 0
               ELSE IF dotAll THEN Max(closes) + 8 ELSE Min(closes) + 8

\* /javascript:/ tried at position i
JsMatchEnd(s, i) == IF MatchesAt(s, i, JsProtocol) THEN i + 10 ELSE 0

\* /on\w+\s*=/ tried at position i.  \w, \s and "=" are disjoint, so the only
\* candidate is the longest run of \w followed by the longest run of \s.
OnHandlerMatchEnd(s, i) ==
  IF ~MatchesAt(s, i, <<"o","n">>) THEN 0
  ELSE LET wEnd == Min({j \in (i + 1)..Len(s) :
                          j = Len(s) \/ ~IsWordChar(s[j + 1])})
           sEnd == Min({j \in wEnd..Len(s) :
                          j = Len(s) \/ ~IsSpace(s[j + 1])})
       IN IF wEnd >= i + 2 /\ sEnd < Len(s) /\ s[sEnd + 1] = "="
          THEN sEnd + 1 ELSE 0

\* String.prototype.replace(re, '') with the g flag: leftmost matches, left to
\* right, never overlapping.  which selects the expression.
MatchEnd(s, i, which) ==
  CASE which = "script" -> ScriptMatchEnd(s, i, FALSE)
    [] which = "scriptPg" -> ScriptMatchEnd(s, i, TRUE)
    [] which = "js" -> JsMatchEnd(s, i)
    [] which = "on" -> OnHandlerMatchEnd(s, i)

RECURSIVE RemoveFrom(_, _, _)
RemoveFrom(s, i, which) ==
  IF i > Len(s) THEN <<>>
  ELSE LET e == MatchEnd(s, i, which) IN
       IF e > 0 THEN RemoveFrom(s, e + 1, which)
       ELSE <<s[i]>> \o RemoveFrom(s, i + 1, which)

RemoveAll(s, which) == RemoveFrom(s, 1, which)

RECURSIVE TrimLeft(_)
TrimLeft(s) ==
  IF s # <<>> /\ IsSpace(Head(s)) THEN TrimLeft(Tail(s)) ELSE s

RECURSIVE TrimRight(_)
TrimRight(s) ==
  IF s # <<>> /\ IsSpace(s[Len(s)])
  THEN TrimRight(SubSeq(s, 1, Len(s) - 1)) ELSE s

\* .replace(/</g,'&lt;').replace(/>/g,'&gt;').replace(/"/g,'&quot;').replace(/'/g,'&#x27;')
EscapeChar(c) ==
  CASE c = "<" -> <<"&","l","t",";">>
    [] c = ">" -> <<"&","g","t",";">>
    [] c = "\"" -> <<"&","q","u","o","t",";">>
    [] c = "'" -> <<"&","#","x","2","7",";">>
    [] OTHER -> <<c>>

RECURSIVE EscapeHtml(_)
EscapeHtml(s) ==
  IF s = <<>> THEN <<>> ELSE EscapeChar(Head(s)) \o EscapeHtml(Tail(s))

\* trim() of body followed by fill letters: the right end of body is the end
\* of the string only when there is no fill
TrimBody(body, fill) ==
  IF fill = 0 THEN TrimRight(TrimLeft(body)) ELSE TrimLeft(body)

----------------------------------------------------------------------------
(* DataValidator *)

Err(msg) == [msg |-> msg, n |-> 0]
ErrN(msg, n) == [msg |-> msg, n |-> n]

DefaultMaxLength == 10000
DefaultMaxSize == 1048576

\* the three replace calls, trim and the HTML escape of validateText
SanitizeText(value) ==
  LET replaced == RemoveAll(RemoveAll(RemoveAll(value.body, "script"), "js"), "on")
  IN Str(EscapeHtml(TrimBody(replaced, value.fill)), value.fill)

\* a validateText that never reports the length error
validateTextNoLengthCheck(value, maxLength) ==
  IF ~Truthy(value) \/ value.kind # "str"
  THEN [isValid |-> FALSE,
        errors |-> <<Err("Value must be a non-empty string")>>,
        sanitizedValue |-> Undefined]
  ELSE [isValid |-> TRUE, errors |-> <<>>, sanitizedValue |-> SanitizeText(value)]

validateText(value, maxLength) ==
  IF ~Truthy(value) \/ value.kind # "str"
  THEN [isValid |-> FALSE,
        errors |-> <<Err("Value must be a non-empty string")>>,
        sanitizedValue |-> Undefined]
  ELSE LET errors == IF Length(value) > maxLength
                     THEN <<ErrN("Text must be N characters or less", maxLength)>>
                     ELSE <<>>
       IN [isValid |-> errors = <<>>,
           errors |-> errors,
           sanitizedValue |-> SanitizeText(value)]

\* JSON.stringify(data).length is the fill of an object value
validateJson(data, maxSize) ==
  IF Length(data) > maxSize
  THEN [isValid |-> FALSE,
        errors |-> <<ErrN("JSON data too large. Maximum N bytes allowed", maxSize)>>,
        sanitizedValue |-> Undefined]
  ELSE [isValid |-> TRUE, errors |-> <<>>, sanitizedValue |-> data]

----------------------------------------------------------------------------
(* Element identities and the key of the pending maps.  An elementType or   *)
(* elementId is the sequence of its pieces: the maximal runs without "_",   *)
(* and "_" itself, so two sequences are equal iff the strings are.          *)

ElementTypes == {<<"text">>, <<"image">>, <<"project">>, <<"education">>, <<"profile">>}

Ident(t, i) == [elementType |-> t, elementId |-> i]

\* the identities edited: a project whose id holds "_", and an element of
\* the type "project_field" (the editable fields of ShareLinkManager)
Idents == {Ident(<<"project">>, <<"field", "_", "a1">>),
           Ident(<<"project", "_", "field">>, <<"a1">>)}

\* `${elementType}_${elementId}`
KeyOf(elementType, elementId) == elementType \o <<"_">> \o elementId

Key(ident) == KeyOf(ident.elementType, ident.elementId)

Keys == {Key(a) : a \in Idents}

\* the values the user types or saves
Hello == Str(<<"h","i">>, 0)
Bold == Str(<<"<","b",">">>, 0)
TooLong == Str(<<"a">>, DefaultMaxLength)

\* what autoSave is called with, and what saveElement is called with directly
EditValues == {Hello, TooLong}
SaveValues == {Hello, Bold, TooLong}

\* Map operations
EmptyMap == [k \in {} |-> Null]
MapHas(m, k) == k \in DOMAIN m
MapSet(m, k, v) == [x \in (DOMAIN m) \cup {k} |-> IF x = k THEN v ELSE m[x]]
MapDelete(m, k) == [x \in (DOMAIN m) \ {k} |-> m[x]]
\* Map.get: undefined when the key is absent
MapGet(m, k) == IF k \in DOMAIN m THEN m[k] ELSE Undefined

----------------------------------------------------------------------------
(* Backend: table portfolio_data_v2 with its BEFORE triggers, and the RPCs *)

NoRow == [exists |-> FALSE, element_value |-> Null, json_data |-> Null,
          version |-> 0, is_active |-> FALSE]

RECURSIVE TrimSpacesLeft(_)
TrimSpacesLeft(s) ==
  IF s # <<>> /\ Head(s) = " " THEN TrimSpacesLeft(Tail(s)) ELSE s

RECURSIVE TrimSpacesRight(_)
TrimSpacesRight(s) ==
  IF s # <<>> /\ s[Len(s)] = " "
  THEN TrimSpacesRight(SubSeq(s, 1, Len(s) - 1)) ELSE s

\* validate_portfolio_data, "Sanitize text content": two regexp_replace and trim
BackendSanitize(v) ==
  IF v.kind # "str" THEN v
  ELSE LET replaced == RemoveAll(RemoveAll(v.body, "scriptPg"), "js")
       IN Str(IF v.fill = 0 THEN TrimSpacesRight(TrimSpacesLeft(replaced))
              ELSE TrimSpacesLeft(replaced), v.fill)

\* validate_portfolio_data on a proposed row: the exception it raises, or "" 
ValidationTriggerError(elementType, element_value, json_data) ==
  IF elementType \notin ElementTypes THEN "Invalid element_type"
  ELSE IF element_value.kind = "str"
          /\ Length(BackendSanitize(element_value)) > DefaultMaxLength
       THEN "Element value too long. Maximum 10000 characters allowed."
  ELSE IF json_data.kind = "obj" /\ Length(json_data) > DefaultMaxSize
       THEN "JSON data too large. Maximum 1MB allowed."
  ELSE ""

\* a backup trigger that leaves the version as it was
SameVersion(old) == old.version

\* create_portfolio_backup: NEW.version = COALESCE(OLD.version, 0) + 1
NextVersion(old) == old.version + 1

\* create_portfolio_backup, IF TG_OP = 'UPDATE': the OLD row copied into
\* portfolio_data_backup
BackupOf(ident, old, reason) ==
  [ident |-> ident, element_value |-> old.element_value,
   json_data |-> old.json_data, backup_reason |-> reason]

BackupTrigger(ident, old) ==
  IF old.exists THEN {BackupOf(ident, old, "pre_update_backup")} ELSE {}

\* upsert_portfolio_data(p_element_type, p_element_id, p_element_value, p_json_data)
\* run by a caller whose auth.uid() is set iff authed, on the row old.
\* INSERT fires the validation trigger; on conflict DO UPDATE fires the backup
\* trigger (version = OLD.version + 1) and the validation trigger again.
Upsert(authed, old, elementType, element_value, json_data) ==
  IF ~authed THEN [error |-> "User must be authenticated", row |-> old]
  ELSE LET e1 == ValidationTriggerError(elementType, element_value, json_data)
           v1 == BackendSanitize(element_value)
       IN IF e1 # "" THEN [error |-> e1, row |-> old]
          ELSE IF ~old.exists
          THEN [error |-> "",
                row |-> [exists |-> TRUE, element_value |-> v1,
                         json_data |-> json_data, version |-> 1,
                         is_active |-> TRUE]]
          ELSE LET e2 == ValidationTriggerError(elementType, v1, json_data) IN
               IF e2 # "" THEN [error |-> e2, row |-> old]
               ELSE [error |-> "",
                     row |-> [exists |-> TRUE,
                              element_value |-> BackendSanitize(v1),
                              json_data |-> json_data,
                              version |-> NextVersion(old),
                              is_active |-> old.is_active]]

\* getElement: rpc get_portfolio_data(type, id), then
\* item.json_data || item.element_value of the first row, null when there is
\* none or when the rpc fails (no session)
getElement(authed, row) ==
  IF ~authed THEN Null
  ELSE IF row.exists /\ row.is_active
       THEN OrElse(row.json_data, row.element_value)
       ELSE Null

----------------------------------------------------------------------------
(* History kept per key for the properties.                                  *)
(*   edits    one record per autoSave call for the key, in order:            *)
(*            idle      the key had no buffered value, no scheduled timer    *)
(*                      and no flush in flight when the call arrived         *)
(*            midFlush  a flush of the key was in flight when it arrived     *)
(*            gap       "first", or the arrival relative to the moment the   *)
(*                      previous call's delay ran out: "within", "at",       *)
(*                      "after"                                              *)
(*            marks     what happened to the key between the previous call   *)
(*                      and this one (see marks below)                       *)
(*   h, due   handle and expiry of the timer of the last call                *)
(*   fired    the callback of that timer has run                             *)
(*   marks    what happened since the last call: "cancel"                    *)
(*            (clearAllAutoSaveTimeouts), "saveNow" (saveElement was called  *)
(*            directly for the key), "saved" (such a call succeeded),        *)
(*            "failed" (a flush of the key failed)                           *)
(*   last     the edit or save issued last for the key (an autoSave or a     *)
(*            direct saveElement call): its identity, its value, and whether *)
(*            saveElement validates it                                       *)
(*   clean    no saveElement call of the key has failed and no buffered edit *)
(*            of the key was cancelled so far                                *)
(*   flushes  one record per saveElement call issued by a timer callback of  *)
(*            the key, in order: n is the number of autoSave calls made      *)
(*            before it, early says it started before due, marks is a copy   *)
(*            of marks at that moment                                        *)

NoIssue == [ident |-> [elementType |-> <<>>, elementId |-> <<>>], value |-> Undefined,
            validate |-> FALSE]

Issue(ident, value, validate) == [ident |-> ident, value |-> value, validate |-> validate]

NoMon == [edits |-> <<>>, h |-> 0, due |-> 0, fired |-> FALSE, marks |-> {},
          flushes |-> <<>>, last |-> NoIssue, clean |-> TRUE]

Mark(m, k, what) == [m EXCEPT ![k].marks = @ \cup {what}]

----------------------------------------------------------------------------
(* EnhancedPortfolioDataService *)

\* setTimeout default of autoSave: delay = 2000 ms
DefaultDelay == 2

NoResult == [success |-> FALSE, errors |-> <<>>]

\* a saveElement invocation suspended at its first await; timer is the handle
\* of the autosave timer whose callback awaits it, 0 for a direct call; restore
\* says that restoreFromBackup awaits it
NewCall(ident, value, autoSave, validateData, showNotifications, timer) ==
  [ident |-> ident, arg |-> value, autoSave |-> autoSave,
   validateData |-> validateData, showNotifications |-> showNotifications,
   timer |-> timer, key |-> Key(ident), pc |-> "getSession",
   sawSession |-> FALSE, value |-> value, currentData |-> Null,
   result |-> NoResult, wrote |-> FALSE, emitted |-> 0, restore |-> FALSE]

NoCall == [NewCall(Ident(<<>>, <<>>), Null, FALSE, FALSE, FALSE, 0) EXCEPT !.pc = "none"]

RemoveAt(seq, i) == SubSeq(seq, 1, i - 1) \o SubSeq(seq, i + 1, Len(seq))

FlushInFlight(key) ==
  \E c \in 1..Len(calls) : calls[c].timer # 0 /\ calls[c].key = key

TimerScheduled(key) == \E h \in DOMAIN timers : timers[h].key = key

\* clearTimeout(handle): a timer that has fired or was cleared is left alone
ClearTimeout(ts, h) == [x \in (DOMAIN ts) \ {h} |-> ts[x]]

\* an autoSave that leaves the previous timer of the key running
ExistingTimeoutKept(key) == timers

\* autoSave, "Clear existing timeout": the timer table after it
ExistingTimeoutCleared(key) ==
  IF MapHas(autoSaveTimeouts, key)
  THEN ClearTimeout(timers, autoSaveTimeouts[key])
  ELSE timers

\* autoSave(elementType, elementId, value) with the default delay, as called
\* by the page hook's updatePortfolioData, which then counts the change:
\* setPendingChanges(prev => prev + 1)
AutoSave(ident, value) ==
  LET key == Key(ident)
      h == nextHandle
      m == mon[key]
      edit == [value |-> value, ident |-> ident,
               idle |-> /\ ~MapHas(pendingChanges, key)
                        /\ ~TimerScheduled(key)
                        /\ ~FlushInFlight(key),
               midFlush |-> FlushInFlight(key),
               gap |-> IF m.edits = <<>> THEN "first"
                       ELSE IF now < m.due THEN "within"
                       ELSE IF now = m.due THEN "at" ELSE "after",
               marks |-> m.marks]
  IN /\ used + 1 <= MaxOps
     /\ pendingChanges' = MapSet(pendingChanges, key, value)
     /\ timers' = MapSet(ExistingTimeoutCleared(key), h,
                         [key |-> key, ident |-> ident, due |-> now + DefaultDelay])
     /\ autoSaveTimeouts' = MapSet(autoSaveTimeouts, key, h)
     /\ nextHandle' = nextHandle + 1
     /\ mon' = [mon EXCEPT ![key] = [edits |-> Append(m.edits, edit), h |-> h,
                                     due |-> now + DefaultDelay, fired |-> FALSE,
                                     marks |-> {}, flushes |-> m.flushes,
                                     last |-> Issue(ident, value, TRUE),
                                     clean |-> m.clean]]
     /\ used' = used + 1
     /\ pendingCount' = pendingCount + 1
     /\ UNCHANGED <<now, session, calls, lastReturn, store, events>>
     /\ UNCHANGED <<busVars, opVars, shareVars, validatorVars, authVars, realtimeVars>>

\* the callback of the autoSave timer h, up to its await of saveElement
TimerFires(h) ==
  LET t == timers[h]
      m == mon[t.key]
      pendingValue == MapGet(pendingChanges, t.key)
      flush == [value |-> pendingValue, ident |-> t.ident, n |-> Len(m.edits),
                early |-> now < m.due, marks |-> m.marks]
  IN /\ h \in DOMAIN timers
     /\ t.due <= now
     /\ timers' = ClearTimeout(timers, h)
     /\ IF pendingValue # Undefined
        THEN calls' = Append(calls, NewCall(t.ident, pendingValue, TRUE, TRUE, FALSE, h))
        ELSE UNCHANGED calls
     /\ mon' = [mon EXCEPT ![t.key].fired = @ \/ (h = m.h),
                           ![t.key].flushes = IF pendingValue # Undefined
                                              THEN Append(@, flush) ELSE @]
     /\ UNCHANGED <<now, session, pendingChanges, autoSaveTimeouts, nextHandle,
                    lastReturn, store, events, used>>
     /\ UNCHANGED <<busVars, opVars, shareVars, pageVars>>

\* saveElement called directly (immediate save), options.validateData = validate
SaveNow(ident, value, validate) ==
  /\ used + 2 <= MaxOps
  /\ calls' = Append(calls, NewCall(ident, value, FALSE, validate, TRUE, 0))
  /\ used' = used + 2
  /\ mon' = [Mark(mon, Key(ident), "saveNow") EXCEPT
               ![Key(ident)].last = Issue(ident, value, validate)]
  /\ UNCHANGED <<now, session, pendingChanges, autoSaveTimeouts, timers,
                 nextHandle, lastReturn, store, events>>
  /\ UNCHANGED <<busVars, opVars, shareVars, pageVars>>

\* a timer callback that forgets the pending edit only after a successful save
PendingAfterFlushIfSuccess(call, success) ==
  IF call.timer # 0 /\ success
  THEN MapDelete(pendingChanges, call.key)
  ELSE pendingChanges

\* the timer callback after its await: this.pendingChanges.delete(key)
PendingAfterFlush(call, success) ==
  IF call.timer # 0
  THEN MapDelete(pendingChanges, call.key)
  ELSE pendingChanges

\* the timer callback after its await: this.autoSaveTimeouts.delete(key)
TimeoutsAfterFlush(call, success) ==
  IF call.timer # 0
  THEN MapDelete(autoSaveTimeouts, call.key)
  ELSE autoSaveTimeouts

\* the saveElement call at position c returns as done (its record, with the
\* result); the timer callback awaiting it, if any, resumes in the same task
Returns(c, done) ==
  /\ calls' = RemoveAt(calls, c)
  /\ lastReturn' = done
  /\ pendingChanges' = PendingAfterFlush(done, done.result.success)
  /\ autoSaveTimeouts' = TimeoutsAfterFlush(done, done.result.success)
  /\ mon' = IF done.timer # 0 /\ ~done.result.success
            THEN [Mark(mon, done.key, "failed") EXCEPT ![done.key].clean = FALSE]
            ELSE IF ~done.result.success
                 THEN [mon EXCEPT ![done.key].clean = FALSE]
            ELSE IF /\ done.timer = 0 /\ done.result.success
                    /\ "saveNow" \in mon[done.key].marks
                 THEN Mark(mon, done.key, "saved")
            ELSE mon

\* a session check that lets every caller through
AuthenticatedAlways(s) == TRUE

\* saveElement, "Check authentication": if (!session) throw
Authenticated(s) == s

\* the validation saveElement runs on its argument
Validation(value) ==
  IF value.kind = "str"
  THEN validateText(value, DefaultMaxLength)
  ELSE validateJson(value, DefaultMaxSize)

\* saveElement resumes from await supabase.auth.getSession(): the session
\* check, the validation, up to await this.getElement
GetSessionReturns(c) ==
  LET call == calls[c]
      validation == Validation(call.arg)
      failed(errors) == [call EXCEPT !.pc = "returned", !.sawSession = session,
                                     !.result = [success |-> FALSE, errors |-> errors]]
  IN /\ call.pc = "getSession"
     /\ IF ~Authenticated(session)
        THEN Returns(c, failed(<<Err("User must be authenticated to save data")>>))
        ELSE IF call.validateData /\ ~validation.isValid
        THEN Returns(c, failed(validation.errors))
        ELSE /\ calls' = [calls EXCEPT
                            ![c].pc = "getElement",
                            ![c].sawSession = session,
                            ![c].value = IF call.validateData
                                         THEN OrElse(validation.sanitizedValue, call.arg)
                                         ELSE call.arg]
             /\ UNCHANGED <<pendingChanges, autoSaveTimeouts, lastReturn, mon>>
     /\ UNCHANGED <<now, session, timers, nextHandle, store, events, used>>
     /\ UNCHANGED <<busVars, opVars, shareVars, pageVars>>

\* saveElement resumes from await this.getElement(elementType, elementId)
GetElementReturns(c) ==
  /\ calls[c].pc = "getElement"
  /\ calls' = [calls EXCEPT ![c].pc = "upsert",
                            ![c].currentData = getElement(session, store[calls[c].ident])]
  /\ UNCHANGED <<now, session, pendingChanges, autoSaveTimeouts, timers,
                 nextHandle, lastReturn, store, events, mon, used>>
  /\ UNCHANGED <<busVars, opVars, shareVars, pageVars>>

\* ---- the change bus ----

\* what a subscribed callback does when it is called: "plain" returns,
\* "thrower" throws, "once" calls its own unsubscribe function and returns
Callbacks == {"plain", "thrower", "once"}

Throws(callback) == callback = "thrower"

UnsubscribesItself(callback) == callback = "once"

NoDelivery == [listeners |-> <<>>, invoked |-> <<>>, escaped |-> FALSE]

\* indexOf: the first position of the callback, 0 where JavaScript has -1
IndexOf(list, callback) ==
  IF \E k \in 1..Len(list) : list[k] = callback
  THEN CHOOSE k \in 1..Len(list) :
         list[k] = callback /\ \A m \in 1..(k - 1) : list[m] # callback
  ELSE 0

\* the function onDataChange returns: indexOf, and splice(index, 1) if found
Unsubscribed(list, callback) ==
  IF IndexOf(list, callback) > 0 THEN RemoveAt(list, IndexOf(list, callback))
  ELSE list

\* a delivery that lets a callback's exception out of the loop
AbortsOnThrow(threw) == threw

\* emitDataChange, try { callback(event) } catch { console.error }: whether
\* an exception of the callback ends the loop
LeavesLoop(threw) == FALSE

\* the callback at position k is called, unless the loop was left or the
\* array is shorter by now
Call(d, k) ==
  IF d.escaped \/ k > Len(d.listeners) THEN d
  ELSE [listeners |-> IF UnsubscribesItself(d.listeners[k])
                      THEN Unsubscribed(d.listeners, d.listeners[k])
                      ELSE d.listeners,
        invoked |-> Append(d.invoked, d.listeners[k]),
        escaped |-> LeavesLoop(Throws(d.listeners[k]))]

\* Array.prototype.forEach over the live array: positions k .. len, where len
\* is the length at the start
RECURSIVE ForEach(_, _, _)
ForEach(d, k, len) ==
  IF k > len THEN d
  ELSE CHOOSE out \in {ForEach(e, k + 1, len) : e \in {Call(d, k)}} : TRUE

\* a delivery that does not reach the last subscriber
emitDataChangeButLast(list) ==
  ForEach([listeners |-> list, invoked |-> <<>>, escaped |-> FALSE],
          1, Len(list) - 1)

\* emitDataChange: the callbacks called, in order, and the list afterwards
emitDataChange(list) ==
  ForEach([listeners |-> list, invoked |-> <<>>, escaped |-> FALSE],
          1, Len(list))

\* saveElement resumes from await supabase.rpc('upsert_portfolio_data'):
\* the rpc ran on the backend, or the request failed (fault)
UpsertReturns(c, fault) ==
  \E r \in {Upsert(session, store[calls[c].ident], calls[c].ident.elementType,
                   IF calls[c].value.kind = "str" THEN calls[c].value ELSE Null,
                   IF calls[c].value.kind = "obj" THEN calls[c].value ELSE Null)},
     delivery \in {emitDataChange(changeListeners)} :
    LET call == calls[c]
        error == IF fault THEN "Network error" ELSE r.error
        result == IF error # "" THEN [success |-> FALSE, errors |-> <<Err(error)>>]
                  ELSE IF delivery.escaped
                  THEN [success |-> FALSE, errors |-> <<Err("listener error")>>]
                  ELSE [success |-> TRUE, errors |-> <<>>]
    IN /\ call.pc = "upsert"
       /\ fault => used + 1 <= MaxOps
       /\ used' = IF fault THEN used + 1 ELSE used
       /\ IF error = ""
          THEN /\ store' = [store EXCEPT ![call.ident] = r.row]
               /\ events' = Append(events,
                                   [elementType |-> call.ident.elementType,
                                    elementId |-> call.ident.elementId,
                                    oldValue |-> call.currentData,
                                    newValue |-> call.value])
               /\ backups' = backups \cup BackupTrigger(call.ident, store[call.ident])
               /\ changeListeners' = delivery.listeners
               /\ lastDelivery' = [delivery EXCEPT !.listeners = changeListeners]
          ELSE UNCHANGED <<store, events, backups, busVars>>
       /\ \E done \in {[call EXCEPT !.pc = "returned", !.result = result,
                                    !.wrote = (error = ""),
                                    !.emitted = IF error = "" THEN 1 ELSE 0]} :
            Returns(c, done)
       /\ UNCHANGED <<now, session, timers, nextHandle>>
       /\ UNCHANGED <<localData, lastOp, shareVars, pageVars>>

\* a clearAllAutoSaveTimeouts that keeps the buffered values
PendingKeptOnClearAll == pendingChanges

\* clearAllAutoSaveTimeouts: this.pendingChanges.clear()
PendingAfterClearAll == EmptyMap

\* clearAllAutoSaveTimeouts(), as called by the page hook's cleanup, which
\* then resets its counter: setPendingChanges(0)
ClearAllAutoSaveTimeouts ==
  /\ used + 1 <= MaxOps
  /\ timers' = [h \in (DOMAIN timers) \ {autoSaveTimeouts[k] : k \in DOMAIN autoSaveTimeouts}
                  |-> timers[h]]
  /\ autoSaveTimeouts' = EmptyMap
  /\ pendingChanges' = PendingAfterClearAll
  /\ mon' = [k \in DOMAIN mon |->
               [mon[k] EXCEPT !.marks = @ \cup {"cancel"},
                              !.clean = @ /\ ~MapHas(pendingChanges, k)]]
  /\ used' = used + 1
  /\ pendingCount' = 0
  /\ UNCHANGED <<now, session, nextHandle, calls, lastReturn, store, events>>
  /\ UNCHANGED <<busVars, opVars, shareVars, validatorVars, authVars, realtimeVars>>

----------------------------------------------------------------------------
(* Environment: the clock and the auth service *)

\* time passes; a timer that is due runs before the clock moves on
Tick ==
  /\ now < MaxTime
  /\ \A h \in DOMAIN timers : timers[h].due > now
  /\ now' = now + 1
  /\ UNCHANGED <<session, pendingChanges, autoSaveTimeouts, timers, nextHandle,
                 calls, lastReturn, store, events, mon, used>>
  /\ UNCHANGED <<busVars, opVars, shareVars, pageVars>>

\* the user signs in or out, or the session expires
SessionChanges ==
  /\ used + 1 <= MaxOps
  /\ session' = ~session
  /\ used' = used + 1
  /\ UNCHANGED <<now, pendingChanges, autoSaveTimeouts, timers, nextHandle,
                 calls, lastReturn, store, events, mon>>
  /\ UNCHANGED <<busVars, opVars, shareVars, pageVars>>

----------------------------------------------------------------------------
(* Subscriptions, deleteElement and bulkSave.  deleteElement and bulkSave  *)
(* are taken as one step each, with the session as it is at the call.       *)

\* subscribers at a time
MaxListeners == 2

NoOp == [op |-> "none"]

\* no row in form_shares
NoShare == [exists |-> FALSE, is_active |-> FALSE, expires_at |-> 0,
            access_count |-> 0]

NoValidations == [client |-> 0, sql |-> 0]

\* onDataChange(callback): push
Subscribe(callback) ==
  /\ used + 1 <= MaxOps
  /\ Len(changeListeners) < MaxListeners
  /\ \A k \in 1..Len(changeListeners) : changeListeners[k] # callback
  /\ changeListeners' = Append(changeListeners, callback)
  /\ used' = used + 1
  /\ UNCHANGED <<now, session, pendingChanges, autoSaveTimeouts, timers,
                 nextHandle, calls, lastReturn, store, events, mon>>
  /\ UNCHANGED <<lastDelivery, opVars, shareVars, pageVars>>

\* the function onDataChange returned, called outside a delivery
Unsubscribe(callback) ==
  /\ used + 1 <= MaxOps
  /\ \E k \in 1..Len(changeListeners) : changeListeners[k] = callback
  /\ changeListeners' = Unsubscribed(changeListeners, callback)
  /\ used' = used + 1
  /\ UNCHANGED <<now, session, pendingChanges, autoSaveTimeouts, timers,
                 nextHandle, calls, lastReturn, store, events, mon>>
  /\ UNCHANGED <<lastDelivery, opVars, shareVars, pageVars>>

\* supabase.from('portfolio_data_backup').insert(...) by the client: the table
\* has a SELECT policy only and original_id is NOT NULL, so the insert is
\* refused; deleteElement does not look at the answer
ClientBackupInsert(table, row) ==
  [error |-> "new row violates row-level security policy", table |-> table]

\* a delete that removes the row
HardDeleted(old) == NoRow

\* UPDATE portfolio_data_v2 SET is_active = false WHERE user_id, element_type,
\* element_id match, with the BEFORE UPDATE triggers: the row afterwards
SoftDeleted(old) ==
  IF ~old.exists THEN old
  ELSE [exists |-> TRUE, element_value |-> BackendSanitize(old.element_value),
        json_data |-> old.json_data, version |-> NextVersion(old),
        is_active |-> FALSE]

\* deleteElement(elementType, elementId); fault: the update request fails
DeleteElement(ident, fault) ==
  LET old == store[ident]
      currentValue == getElement(session, old)
      insert == IF Truthy(currentValue)
                THEN ClientBackupInsert(backups,
                                        BackupOf(ident, old, "pre_deletion_backup"))
                ELSE [error |-> "", table |-> backups]
      refused == IF old.exists
                 THEN ValidationTriggerError(ident.elementType, old.element_value,
                                             old.json_data)
                 ELSE ""
      updateError == IF fault THEN "Network error" ELSE refused
      done == session /\ updateError = ""
  IN /\ used + 1 <= MaxOps
     /\ used' = used + 1
     /\ store' = IF done THEN [store EXCEPT ![ident] = SoftDeleted(old)] ELSE store
     /\ backups' = IF done THEN insert.table \cup BackupTrigger(ident, old)
                   ELSE IF session THEN insert.table ELSE backups
     /\ lastOp' = [op |-> "deleteElement", ident |-> ident, result |-> done,
                   currentValue |-> IF session THEN currentValue ELSE Null,
                   backupError |-> IF session THEN insert.error ELSE "",
                   updateError |-> IF session THEN updateError ELSE ""]
     /\ UNCHANGED <<now, session, pendingChanges, autoSaveTimeouts, timers,
                    nextHandle, calls, lastReturn, events, mon>>
     /\ UNCHANGED <<busVars, localData, shareVars, pageVars>>

\* a bulk update that keeps what the earlier upserts of the batch wrote
KeepsEarlier(before, partial) == partial

\* bulk_update_portfolio_data is one function call, one transaction: an
\* exception raised by any upsert undoes the upserts before it
RolledBack(before, partial) == before

\* bulk_update_portfolio_data(p_updates) from position k on: the table, the
\* backup table, the count, and the exception if one was raised
RECURSIVE BulkUpdate(_, _, _, _, _, _)
BulkUpdate(before, table, bk, updates, k, count) ==
  IF k > Len(updates)
  THEN [error |-> "", table |-> table, backups |-> bk, count |-> count]
  ELSE LET u == updates[k]
           Step(r) ==
             IF r.error # ""
             THEN [error |-> r.error, table |-> RolledBack(before.table, table),
                   backups |-> RolledBack(before.backups, bk), count |-> 0]
             ELSE BulkUpdate(before, [table EXCEPT ![u.ident] = r.row],
                             bk \cup BackupTrigger(u.ident, table[u.ident]),
                             updates, k + 1, count + 1)
       IN CHOOSE out \in
            {Step(r) : r \in {Upsert(TRUE, table[u.ident], u.ident.elementType,
                                     IF u.value.kind = "str" THEN u.value ELSE Null,
                                     IF u.value.kind = "obj" THEN u.value ELSE Null)}} :
            TRUE

RECURSIVE SetAll(_, _, _)
SetAll(map, updates, k) ==
  IF k > Len(updates) THEN map
  ELSE SetAll(MapSet(map, Key(updates[k].ident), updates[k].value), updates, k + 1)

\* the page's bulkSave(updates): the service's bulkSave (session check, the
\* rpc, no validation), then the local map on success
BulkSave(updates) ==
  \E r \in {BulkUpdate([table |-> store, backups |-> backups], store, backups,
                       updates, 1, 0)} :
    LET error == IF ~session THEN "User must be authenticated" ELSE r.error
        result == IF error = ""
                  THEN [success |-> TRUE, savedCount |-> r.count, errors |-> <<>>]
                  ELSE [success |-> FALSE, savedCount |-> 0, errors |-> <<error>>]
    IN /\ used + 2 <= MaxOps
       /\ used' = used + 2
       /\ store' = IF session THEN r.table ELSE store
       /\ backups' = IF session THEN r.backups ELSE backups
       /\ localData' = IF result.success THEN SetAll(localData, updates, 1)
                       ELSE localData
       /\ lastOp' = [op |-> "bulkSave", updates |-> updates, result |-> result]
       /\ UNCHANGED <<now, session, pendingChanges, autoSaveTimeouts, timers,
                      nextHandle, calls, lastReturn, events, mon>>
       /\ UNCHANGED <<busVars, shareVars, pageVars>>

----------------------------------------------------------------------------
(* The page-side state while nothing has happened on the page               *)

NoVerdict == [error |-> "none", element_value |-> Undefined]

\* no text has been handed to the validator
ValidatorIdle ==
  /\ draft = Undefined
  /\ verdicts = <<>>
  /\ backendVerdict = NoVerdict

\* AuthProvider as constructed: useState(null) three times, useState(false)
SignedOut == [user |-> "none", session |-> "none", userRole |-> "none",
              isGuest |-> FALSE]

AuthIdle ==
  /\ auth = SignedOut
  /\ signOuts = <<>>
  /\ lastAuth = "none"

\* useState(0)
HookIdle == pendingCount = 0

\* no backend change has been notified
NoChange == [n |-> 0, listeners |-> <<>>, pending |-> {}, invoked |-> <<>>,
             stable |-> TRUE]

\* RealTimeFormService before any subscribeToForm call
RealtimeIdle ==
  /\ channelMode = "own"
  /\ formListeners = <<>>
  /\ channels = EmptyMap
  /\ subscriptions = <<>>
  /\ lastChange = NoChange

PageIdle == ValidatorIdle /\ AuthIdle /\ HookIdle /\ RealtimeIdle

----------------------------------------------------------------------------

Init ==
  /\ now = 0
  /\ session \in BOOLEAN
  /\ pendingChanges = EmptyMap
  /\ autoSaveTimeouts = EmptyMap
  /\ timers = EmptyMap
  /\ nextHandle = 1
  /\ calls = <<>>
  /\ lastReturn = NoCall
  /\ store = [a \in Idents |-> NoRow]
  /\ events = <<>>
  /\ mon = [k \in Keys |-> NoMon]
  /\ used = 0
  /\ changeListeners = <<>>
  /\ lastDelivery = NoDelivery
  /\ backups = {}
  /\ localData = EmptyMap
  /\ lastOp = NoOp
  /\ formShares = NoShare
  /\ validations = NoValidations
  /\ PageIdle

Next ==
  \/ \E a \in Idents, v \in EditValues : AutoSave(a, v)
  \/ \E h \in DOMAIN timers : TimerFires(h)
  \/ \E a \in Idents, v \in SaveValues, validate \in BOOLEAN : SaveNow(a, v, validate)
  \/ \E c \in 1..Len(calls) : GetSessionReturns(c)
  \/ \E c \in 1..Len(calls) : GetElementReturns(c)
  \/ \E c \in 1..Len(calls), fault \in BOOLEAN : UpsertReturns(c, fault)
  \/ ClearAllAutoSaveTimeouts
  \/ Tick
  \/ SessionChanges

Spec == Init /\ [][Next]_vars

----------------------------------------------------------------------------
(* The store: direct saves, deletes, bulk saves and subscribers.            *)

\* two elements of the owner
StoreIdents == {Ident(<<"text">>, <<"t1">>), Ident(<<"text">>, <<"t2">>)}

StoreKeys == {Key(a) : a \in StoreIdents}

\* the row an earlier upsert of the value inserted
InsertedRow(ident, value) ==
  Upsert(TRUE, NoRow, ident.elementType, value, Null).row

\* the values saved: text, text with markup, text over the limit, an object
StoreValues == SaveValues \cup {Obj(2)}

\* the subscriber lists: at most MaxListeners distinct callbacks
ListenerLists ==
  {list \in UNION {[1..n -> Callbacks] : n \in 0..MaxListeners} :
     \A i, j \in DOMAIN list : i # j => list[i] # list[j]}

\* the batches of a bulk save
Updates ==
  {<<[ident |-> a, value |-> v], [ident |-> b, value |-> w]>> :
     a \in StoreIdents, b \in StoreIdents, v \in EditValues, w \in EditValues}

StoreInit ==
  /\ now = 0
  /\ session \in BOOLEAN
  /\ pendingChanges = EmptyMap
  /\ autoSaveTimeouts = EmptyMap
  /\ timers = EmptyMap
  /\ nextHandle = 1
  /\ calls = <<>>
  /\ lastReturn = NoCall
  /\ store \in [StoreIdents -> {NoRow}] \cup
               {[a \in StoreIdents |-> InsertedRow(a, Hello)]}
  /\ events = <<>>
  /\ mon = [k \in StoreKeys |-> NoMon]
  /\ used = 0
  /\ changeListeners \in ListenerLists
  /\ lastDelivery = NoDelivery
  /\ backups = {}
  /\ localData = EmptyMap
  /\ lastOp = NoOp
  /\ formShares = NoShare
  /\ validations = NoValidations
  /\ PageIdle

\* restoreFromBackup(backupId), b being the row of portfolio_data_backup with
\* that id: without a session it returns false; otherwise it reads the row and
\* awaits saveElement(b.element_type, b.element_id, b.json_data ||
\* b.element_value, { showNotifications: false }), whose success it returns
RestoreFromBackup(b) ==
  /\ used + 2 <= MaxOps
  /\ b \in backups
  /\ used' = used + 2
  /\ IF ~Authenticated(session)
     THEN /\ lastOp' = [op |-> "restoreFromBackup", backup |-> b, result |-> FALSE]
          /\ UNCHANGED calls
     ELSE /\ calls' = Append(calls,
                 [NewCall(b.ident, OrElse(b.json_data, b.element_value),
                          FALSE, TRUE, FALSE, 0) EXCEPT !.restore = TRUE])
          /\ UNCHANGED lastOp
  /\ UNCHANGED <<now, session, pendingChanges, autoSaveTimeouts, timers,
                 nextHandle, lastReturn, store, events, mon>>
  /\ UNCHANGED <<busVars, backups, localData, shareVars, pageVars>>

StoreNext ==
  \/ \E callback \in Callbacks : Subscribe(callback)
  \/ \E callback \in Callbacks : Unsubscribe(callback)
  \/ \E a \in StoreIdents, v \in StoreValues, validate \in BOOLEAN : SaveNow(a, v, validate)
  \/ \E c \in 1..Len(calls) : GetSessionReturns(c)
  \/ \E c \in 1..Len(calls) : GetElementReturns(c)
  \/ \E c \in 1..Len(calls), fault \in BOOLEAN : UpsertReturns(c, fault)
  \/ \E a \in StoreIdents, fault \in BOOLEAN : DeleteElement(a, fault)
  \/ \E updates \in Updates : BulkSave(updates)
  \/ \E b \in backups : RestoreFromBackup(b)
  \/ SessionChanges

StoreSpec == StoreInit /\ [][StoreNext]_vars

----------------------------------------------------------------------------
(* Properties *)

NoCancel(marks) == "cancel" \notin marks

\* the autoSave calls i, i+1, ... of key k form a burst: call i found the key
\* idle, every later call arrived less than the delay after the one before it,
\* and clearAllAutoSaveTimeouts was not called since call i
BurstFrom(k, i) ==
  LET e == mon[k].edits IN
  /\ i \in 1..Len(e)
  /\ e[i].idle
  /\ \A j \in (i + 1)..Len(e) : e[j].gap = "within" /\ NoCancel(e[j].marks)
  /\ NoCancel(mon[k].marks)

\* the flushes of key k that started after its i-th autoSave call
FlushesSince(k, i) ==
  {f \in 1..Len(mon[k].flushes) : mon[k].flushes[f].n >= i}

LastEdit(k) == mon[k].edits[Len(mon[k].edits)]

\* every autoSave call made under key k so far was for one and the same identity
OneIdentity(k) ==
  \A i, j \in 1..Len(mon[k].edits) : mon[k].edits[i].ident = mon[k].edits[j].ident

\* C1: debounce coalescing.  For every key, while the autoSave calls made
\* since the key was idle each arrived less than the delay after the previous
\* one, at most one flush of the key has started; it started after the last
\* call and carries the last value; and once the delay has run out after the
\* last call, that one flush has started.
C1_Coalescing ==
  \A k \in Keys : \A i \in 1..Len(mon[k].edits) :
    BurstFrom(k, i) =>
      /\ Cardinality(FlushesSince(k, i)) <= 1
      /\ \A f \in FlushesSince(k, i) :
           /\ mon[k].flushes[f].n = Len(mon[k].edits)
           /\ mon[k].flushes[f].value = LastEdit(k).value
           /\ ~mon[k].flushes[f].early
      /\ (now > mon[k].due \/ mon[k].fired) => FlushesSince(k, i) # {}

\* a burst of three calls with changing values was flushed once, with the last
C1_Witness ==
  \E k \in Keys :
    /\ Len(mon[k].edits) = 3
    /\ BurstFrom(k, 1)
    /\ mon[k].edits[2].value # mon[k].edits[3].value
    /\ Len(mon[k].flushes) = 1
    /\ mon[k].flushes[1].value = mon[k].edits[3].value

\* C2 (as claimed): an autoSave call that arrives while a flush of its key is
\* in flight is flushed in its own debounce cycle: once the timer of that call
\* has run (and nothing was cancelled), a flush carrying its value has started.
C2_EditDuringFlushIsFlushed ==
  \A k \in Keys :
    (/\ mon[k].edits # <<>>
     /\ OneIdentity(k)
     /\ LastEdit(k).midFlush
     /\ NoCancel(mon[k].marks)
     /\ mon[k].fired)
    => \E f \in 1..Len(mon[k].flushes) :
         /\ mon[k].flushes[f].n = Len(mon[k].edits)
         /\ mon[k].flushes[f].value = LastEdit(k).value

\* C3 (as claimed): an edit, a wait longer than the delay, a second edit and
\* no further edits give exactly two flushes, the first with the first value
\* and the second with the second value.
C3_TwoEditsTwoFlushes ==
  \A k \in Keys :
    (/\ Len(mon[k].edits) = 2
     /\ OneIdentity(k)
     /\ mon[k].edits[1].idle
     /\ mon[k].edits[2].gap = "after"
     /\ NoCancel(mon[k].edits[2].marks)
     /\ NoCancel(mon[k].marks)
     /\ mon[k].fired)
    => /\ Len(mon[k].flushes) = 2
       /\ mon[k].flushes[1].n = 1
       /\ mon[k].flushes[1].value = mon[k].edits[1].value
       /\ mon[k].flushes[2].n = 2
       /\ mon[k].flushes[2].value = mon[k].edits[2].value

\* C4 (as claimed): full debounce: no flush of a key starts earlier than the
\* delay after the most recent autoSave call for that key.
C4_NoEarlyFlush ==
  \A k \in Keys :
    OneIdentity(k) => \A f \in 1..Len(mon[k].flushes) : ~mon[k].flushes[f].early

\* C5: hard cancel.  After clearAllAutoSaveTimeouts, as long as no autoSave
\* call for a key follows, nothing is buffered or registered for the key and
\* no flush of the key starts, however far time advances.
C5_HardCancel ==
  \A k \in Keys :
    /\ \A f \in 1..Len(mon[k].flushes) : NoCancel(mon[k].flushes[f].marks)
    /\ ~NoCancel(mon[k].marks) =>
         /\ ~MapHas(pendingChanges, k)
         /\ ~MapHas(autoSaveTimeouts, k)

\* an edit was cancelled before its timer ran, and time went past its window
C5_Witness ==
  \E k \in Keys :
    /\ mon[k].edits # <<>>
    /\ ~NoCancel(mon[k].marks)
    /\ ~mon[k].fired
    /\ now > mon[k].due
    /\ mon[k].flushes = <<>>

\* C6 (as claimed): when a direct saveElement for an identity, called after
\* the last autoSave call under its key, has just succeeded, no autosave timer
\* of that identity is left pending.
C6_SaveNowClearsTimer ==
  (/\ lastReturn.pc = "returned"
   /\ lastReturn.timer = 0
   /\ lastReturn.result.success
   /\ "saved" \in mon[lastReturn.key].marks)
  => \A h \in DOMAIN timers : timers[h].ident # lastReturn.ident

\* C7: a failed flush is not retried.  After a flush of a key has failed, as
\* long as no autoSave call for the key follows, no value is buffered for the
\* key and no flush of the key starts; the failure comes back as a result of
\* the saveElement call (success = FALSE), not as an exception.
C7_NoRetryAfterFailure ==
  \A k \in Keys :
    /\ "failed" \in mon[k].marks => ~MapHas(pendingChanges, k)
    /\ \A f \in 1..Len(mon[k].flushes) : "failed" \notin mon[k].flushes[f].marks

\* a flush failed, and time went past the window of the last autoSave call
C7_Witness ==
  \E k \in Keys :
    /\ "failed" \in mon[k].marks
    /\ lastReturn.timer # 0
    /\ lastReturn.key = k
    /\ ~lastReturn.result.success
    /\ lastReturn.result.errors # <<>>
    /\ now > mon[k].due

\* steps of the autosave machinery that belong to identity a: an autoSave
\* call, a timer callback, the return of a saveElement call
EditStep(a) ==
  /\ nextHandle' = nextHandle + 1
  /\ timers'[nextHandle].ident = a

FireStep(a) ==
  /\ nextHandle' = nextHandle
  /\ used' = used
  /\ \E h \in (DOMAIN timers) \ (DOMAIN timers') : timers[h].ident = a

ReturnStep(a) ==
  /\ Len(calls') < Len(calls)
  /\ lastReturn'.ident = a

TimersOf(ts, b) == {<<h, ts[h]>> : h \in {x \in DOMAIN ts : ts[x].ident = b}}

CallsOf(cs, b) == SelectSeq(cs, LAMBDA c : c.ident = b)

\* everything the autosave machinery holds for identity b stays as it is
Untouched(b) ==
  /\ MapHas(pendingChanges', Key(b)) = MapHas(pendingChanges, Key(b))
  /\ MapGet(pendingChanges', Key(b)) = MapGet(pendingChanges, Key(b))
  /\ MapHas(autoSaveTimeouts', Key(b)) = MapHas(autoSaveTimeouts, Key(b))
  /\ MapHas(autoSaveTimeouts, Key(b)) =>
       autoSaveTimeouts'[Key(b)] = autoSaveTimeouts[Key(b)]
  /\ TimersOf(timers', b) = TimersOf(timers, b)
  /\ CallsOf(calls', b) = CallsOf(calls, b)
  /\ store'[b] = store[b]

\* C8 (as claimed): independence of identities.  An autoSave call, a timer
\* callback or a returning save of one identity changes nothing of what is
\* buffered, scheduled, in flight or stored for a different identity.
C8_Independence ==
  [][\A a \in Idents : \A b \in Idents \ {a} :
       (EditStep(a) \/ FireStep(a) \/ ReturnStep(a)) => Untouched(b)]_vars

\* a saveElement call returns in this step
CallReturns == Len(calls') < Len(calls)

Unauthenticated ==
  [success |-> FALSE, errors |-> <<Err("User must be authenticated to save data")>>]

\* the step wrote nothing to the backend and delivered no change event
NoWriteNoEvent == store' = store /\ events' = events

\* C9: a saveElement call that finds no active session returns the result
\* Unauthenticated (success = FALSE with the authentication error), never
\* reaches the backend, writes nothing and publishes no change event.
C9_Unauthenticated ==
  /\ [](\A c \in 1..Len(calls) :
          calls[c].pc \in {"getElement", "upsert"} => calls[c].sawSession)
  /\ [][(CallReturns /\ ~lastReturn'.sawSession) =>
          /\ lastReturn'.result = Unauthenticated
          /\ ~lastReturn'.wrote
          /\ lastReturn'.emitted = 0
          /\ NoWriteNoEvent]_vars

\* a direct saveElement call of a valid value returned without a session
C9_Witness ==
  /\ lastReturn.pc = "returned"
  /\ lastReturn.timer = 0
  /\ ~lastReturn.sawSession
  /\ lastReturn.arg = Hello
  /\ lastReturn.result = Unauthenticated

\* the values DataValidator rejects: an empty text, a text of more than
\* 10000 characters, an object whose JSON text is longer than 1 MB
Rejected(value) ==
  \/ value.kind = "str" /\ (Length(value) = 0 \/ Length(value) > 10000)
  \/ value.kind = "obj" /\ Length(value) > 1048576

RejectionOf(value) ==
  IF value.kind = "obj"
  THEN <<ErrN("JSON data too large. Maximum N bytes allowed", 1048576)>>
  ELSE IF Length(value) = 0
  THEN <<Err("Value must be a non-empty string")>>
  ELSE <<ErrN("Text must be N characters or less", 10000)>>

\* the return of a validating saveElement call whose value is rejected:
\* success = FALSE with the validator's errors, nothing written, no event
ValidationFailureReturned ==
  /\ lastReturn'.result = [success |-> FALSE, errors |-> RejectionOf(lastReturn'.arg)]
  /\ ~lastReturn'.wrote
  /\ lastReturn'.emitted = 0
  /\ NoWriteNoEvent

\* C10 (as claimed): whenever validation is requested and the value fails
\* it, saveElement returns success = FALSE with the validator's error list,
\* calls no upsert, leaves the stored value as it is and publishes no event.
C10_ValidationFailure ==
  [][(CallReturns /\ lastReturn'.validateData /\ Rejected(lastReturn'.arg))
       => ValidationFailureReturned]_vars

\* C10 (amended): the same for the calls that find an active session; such a
\* call never gets as far as reading or writing the backend.
C10_ValidationFailureWithSession ==
  /\ [](\A c \in 1..Len(calls) :
          (calls[c].validateData /\ Rejected(calls[c].arg))
            => calls[c].pc = "getSession")
  /\ [][(/\ CallReturns
         /\ lastReturn'.sawSession
         /\ lastReturn'.validateData
         /\ Rejected(lastReturn'.arg))
       => ValidationFailureReturned]_vars

\* a direct, validating saveElement call of an oversized text returned with
\* a session, while a row of that identity was stored
C10_Witness ==
  /\ lastReturn.pc = "returned"
  /\ lastReturn.timer = 0
  /\ lastReturn.sawSession
  /\ lastReturn.validateData
  /\ lastReturn.arg = TooLong
  /\ ~lastReturn.result.success
  /\ store[lastReturn.ident] # NoRow

----------------------------------------------------------------------------
(* Share links.  A share record is an object saved under the type 'share';  *)
(* its body holds isActive ("true", "false", or "undefined" when the field *)
(* is absent), expiresAt as toISOString() wrote it, and accessCount.        *)

\* the time from creation to expiry (30 days)
ShareLifetime == 2

\* Date.prototype.toISOString of the instant t
Instants == <<"T0", "T1", "T2", "T3", "T4", "T5", "T6", "T7", "T8", "T9">>

ToISOString(t) == Instants[t + 1]

\* new Date(text)
ParseDate(text) == CHOOSE t \in 0..(Len(Instants) - 1) : Instants[t + 1] = text

\* JSON numerals
Numerals == <<"0", "1", "2", "3", "4", "5", "6", "7", "8", "9">>

ShareRecord(isActive, expiresAt, accessCount) ==
  [kind |-> "obj",
   body |-> <<isActive, ToISOString(expiresAt), Numerals[accessCount + 1]>>,
   fill |-> 1]

\* shareData.accessCount
AccessCount(shareData) ==
  CHOOSE n \in 0..(Len(Numerals) - 1) : Numerals[n + 1] = shareData.body[3]

\* shareData.isActive as a condition
IsActive(shareData) == shareData.body[1] = "true"

\* new Date(shareData.expiresAt)
ExpiresAt(shareData) == ParseDate(shareData.body[2])

\* `share_${formId}_${Date.now()}` and the form it shares
ShareIdent == Ident(<<"share">>, <<"share", "_", "f1", "_", "0">>)

FormIdent == Ident(<<"form">>, <<"f1">>)

ShareIdents == {ShareIdent, FormIdent}

\* expires_at IS NULL
NoExpiry == 0 - 1

\* createShareLink of the share link manager: saveElement('share', shareId,
\* shareData), whose result is not looked at
CreateShareLink ==
  /\ now + ShareLifetime < Len(Instants)
  /\ SaveNow(ShareIdent, ShareRecord("true", now + ShareLifetime, 0), TRUE)

\* new Date(shareData.expiresAt) < new Date()
Expired(expiresAt, at) == expiresAt < at

\* validateShareLink(shareId) of the form service: the error it throws, or ""
ValidateShareLinkError(shareData, at) ==
  IF ~Truthy(shareData) THEN "Share link not found"
  ELSE IF ~IsActive(shareData) THEN "Share link is inactive"
  ELSE IF Expired(ExpiresAt(shareData), at) THEN "Share link has expired"
  ELSE ""

ValidateShareLink ==
  \E shareData \in {getElement(session, store[ShareIdent])} :
    /\ used + 1 <= MaxOps
    /\ used' = used + 1
    /\ lastOp' = [op |-> "validateShareLink", at |-> now, session |-> session,
                  row |-> store[ShareIdent],
                  error |-> ValidateShareLinkError(shareData, now)]
    /\ validations' = [validations EXCEPT !.client = @ + 1]
    /\ UNCHANGED <<now, session, pendingChanges, autoSaveTimeouts, timers,
                   nextHandle, calls, lastReturn, store, events, mon>>
    /\ UNCHANGED <<busVars, backups, localData, formShares, pageVars>>

\* validate_share_link(p_share_id): SELECT ... WHERE is_active = true AND
\* (expires_at IS NULL OR expires_at > NOW())
SqlValid(share, at) ==
  /\ share.exists
  /\ share.is_active
  /\ share.expires_at = NoExpiry \/ share.expires_at > at

\* validate_share_link(p_share_id), run on the backend
ValidateShareLinkSql ==
  /\ used + 1 <= MaxOps
  /\ used' = used + 1
  /\ formShares' = IF SqlValid(formShares, now)
                   THEN [formShares EXCEPT !.access_count = @ + 1]
                   ELSE formShares
  /\ lastOp' = [op |-> "validate_share_link", at |-> now, row |-> formShares,
                is_valid |-> SqlValid(formShares, now)]
  /\ validations' = [validations EXCEPT !.sql = @ + 1]
  /\ UNCHANGED <<now, session, pendingChanges, autoSaveTimeouts, timers,
                 nextHandle, calls, lastReturn, store, events, mon>>
  /\ UNCHANGED <<busVars, backups, localData, pageVars>>

\* loadSharedForm of the form page opened with ?share=<shareId>: the error
\* it shows, or "" when it shows the form
LoadSharedFormError(shareData, formData, at) ==
  IF ~Truthy(shareData) THEN "Share link not found or expired"
  ELSE IF Expired(ExpiresAt(shareData), at) THEN "Share link has expired"
  ELSE IF ~Truthy(formData) THEN "Form not found"
  ELSE ""

LoadSharedForm ==
  \E shareData \in {getElement(session, store[ShareIdent])},
     formData \in {getElement(session, store[FormIdent])} :
    /\ used + 1 <= MaxOps
    /\ used' = used + 1
    /\ lastOp' = [op |-> "loadSharedForm", at |-> now, session |-> session,
                  row |-> store[ShareIdent], form |-> store[FormIdent],
                  error |-> LoadSharedFormError(shareData, formData, now)]
    /\ UNCHANGED <<now, session, pendingChanges, autoSaveTimeouts, timers,
                   nextHandle, calls, lastReturn, store, events, mon>>
    /\ UNCHANGED <<busVars, backups, localData, shareVars, pageVars>>

\* the row holding a share record or a form
RowOf(value) ==
  [exists |-> TRUE, element_value |-> Null, json_data |-> value,
   version |-> 1, is_active |-> TRUE]

ShareRows ==
  {NoRow} \cup
  {RowOf(ShareRecord(a, ShareLifetime, 0)) : a \in {"true", "false", "undefined"}}

FormShareRows ==
  {NoShare} \cup
  {[exists |-> TRUE, is_active |-> a, expires_at |-> e, access_count |-> 0] :
     a \in BOOLEAN, e \in {NoExpiry, ShareLifetime}}

ShareInit ==
  /\ now = 0
  /\ session \in BOOLEAN
  /\ pendingChanges = EmptyMap
  /\ autoSaveTimeouts = EmptyMap
  /\ timers = EmptyMap
  /\ nextHandle = 1
  /\ calls = <<>>
  /\ lastReturn = NoCall
  /\ \E share \in ShareRows, form \in {NoRow, RowOf(Obj(2))} :
       store = [a \in ShareIdents |-> IF a = ShareIdent THEN share ELSE form]
  /\ events = <<>>
  /\ mon = [k \in {Key(a) : a \in ShareIdents} |-> NoMon]
  /\ used = 0
  /\ changeListeners = <<>>
  /\ lastDelivery = NoDelivery
  /\ backups = {}
  /\ localData = EmptyMap
  /\ lastOp = NoOp
  /\ formShares \in FormShareRows
  /\ validations = NoValidations
  /\ PageIdle

ShareNext ==
  \/ CreateShareLink
  \/ \E c \in 1..Len(calls) : GetSessionReturns(c)
  \/ \E c \in 1..Len(calls) : GetElementReturns(c)
  \/ \E c \in 1..Len(calls), fault \in BOOLEAN : UpsertReturns(c, fault)
  \/ \E fault \in BOOLEAN : DeleteElement(ShareIdent, fault)
  \/ ValidateShareLink
  \/ ValidateShareLinkSql
  \/ LoadSharedForm
  \/ SessionChanges
  \/ Tick

ShareSpec == ShareInit /\ [][ShareNext]_vars

----------------------------------------------------------------------------
(* DataValidator.validateText and the trigger validate_portfolio_data as    *)
(* functions of a text: ValidatorSpec draws the text and applies them.      *)

\* a text is at most MaxPieces pieces long and is validated MaxPasses times
MaxPieces == 3
MaxPasses == 2

\* the pieces texts are made of: what the three replace calls look for, whole
\* and in parts, the characters that are escaped, a space and a letter
Pieces ==
  { <<"o">>, <<"o","n","x","=">>, <<"n","x","=">>,
    <<"j","a","v","a">>, JsProtocol, <<"s","c","r","i","p","t",":">>,
    ScriptOpen \o <<">">>, ScriptClose,
    <<"<">>, <<"'">>, <<" ">>, <<"a">> }

RECURSIVE Concat(_)
Concat(ps) == IF ps = <<>> THEN <<>> ELSE Head(ps) \o Concat(Tail(ps))

Bodies == {Concat(ps) : ps \in UNION {[1..n -> Pieces] : n \in 0..MaxPieces}}

\* the text body alone, or filled up to exactly the default maximum length
Padded(body) == {Str(body, 0), Str(body, DefaultMaxLength - Len(body))}

Drafts == UNION {Padded(body) : body \in Bodies}

ValidatorInit ==
  /\ draft \in Drafts
  /\ verdicts = <<>>
  /\ backendVerdict = NoVerdict
  /\ AuthIdle
  /\ HookIdle
  /\ RealtimeIdle
  /\ now = 0
  /\ session = TRUE
  /\ pendingChanges = EmptyMap
  /\ autoSaveTimeouts = EmptyMap
  /\ timers = {}
  /\ nextHandle = 1
  /\ calls = <<>>
  /\ lastReturn = NoCall
  /\ store = [a \in Idents |-> NoRow]
  /\ events = <<>>
  /\ mon = [k \in Keys |-> NoMon]
  /\ used = 0
  /\ changeListeners = <<>>
  /\ lastDelivery = NoDelivery
  /\ backups = {}
  /\ localData = EmptyMap
  /\ lastOp = NoOp
  /\ formShares = NoShare
  /\ validations = NoValidations

\* DataValidator.validateText(value) with the default maximum: first of the
\* draft, then of the sanitizedValue of the call before
ValidateText ==
  /\ Len(verdicts) < MaxPasses
  /\ \E value \in {IF verdicts = <<>> THEN draft
                   ELSE verdicts[Len(verdicts)].sanitizedValue} :
       \E r \in {validateText(value, DefaultMaxLength)} :
         verdicts' = Append(verdicts, r)
  /\ UNCHANGED <<draft, backendVerdict>>
  /\ UNCHANGED <<autoVars, busVars, opVars, shareVars, authVars, hookVars, realtimeVars>>

\* the trigger validate_portfolio_data on a row of type text whose
\* element_value is the sanitized text of the first validateText call
BackendValidates ==
  /\ Len(verdicts) >= 1
  /\ verdicts[1].sanitizedValue.kind = "str"
  /\ backendVerdict = NoVerdict
  /\ \E v \in {verdicts[1].sanitizedValue} :
       backendVerdict' =
         [error |-> ValidationTriggerError(<<"text">>, v, Null),
          element_value |-> BackendSanitize(v)]
  /\ UNCHANGED <<draft, verdicts>>
  /\ UNCHANGED <<autoVars, busVars, opVars, shareVars, authVars, hookVars, realtimeVars>>

ValidatorNext ==
  \/ ValidateText
  \/ BackendValidates

ValidatorSpec == ValidatorInit /\ [][ValidatorNext]_vars

----------------------------------------------------------------------------
(* AuthProvider (contexts/AuthContext.tsx): sign-in, sign-out, guest access *)
(* and what the Index page shows.  session is the session supabase holds    *)
(* (a real one); auth.session is the React state, "mock" after a username   *)
(* sign-in.                                                                 *)

\* a run has at most MaxAuthOps calls of signIn, signOut and accessAsGuest
MaxAuthOps == 3

\* users.role / the role loadUserRole settles on
Roles == {"owner", "viewer"}

\* isOwner: userRole === 'owner'
IsOwner(a) == a.userRole = "owner"

\* Index: if (!isOwner && !isGuest) return <LoginPage />
ShowsLoginPage(a) == ~IsOwner(a) /\ ~a.isGuest

\* signOut: if (session && session.access_token !== 'mock-token')
HasRealSession(a) == a.session = "real"

\* signOut's last statement: setIsGuest(false)
GuestReset(a) == FALSE

\* signOut called by caller while the state is a: either it suspends at await
\* supabase.auth.signOut(), or it clears the mock state and guest mode and
\* completes within the call
SignOutCalled(a, caller) ==
  IF HasRealSession(a)
  THEN /\ auth' = a
       /\ signOuts' = Append(signOuts, caller)
       /\ UNCHANGED lastAuth
  ELSE /\ auth' = [a EXCEPT !.user = "none", !.session = "none",
                            !.userRole = "none", !.isGuest = GuestReset(a)]
       /\ UNCHANGED signOuts
       /\ lastAuth' = caller

\* signIn with an e-mail address: supabase.auth.signInWithPassword, then the
\* onAuthStateChange callback with the new session (loadUserRole, setIsGuest(false))
SignInWithPassword(role) ==
  /\ used + 1 <= MaxAuthOps
  /\ used' = used + 1
  /\ session' = TRUE
  /\ auth' = [user |-> "real", session |-> "real", userRole |-> role,
              isGuest |-> FALSE]
  /\ lastAuth' = "signIn"
  /\ UNCHANGED signOuts
  /\ UNCHANGED <<now, pendingChanges, autoSaveTimeouts, timers, nextHandle,
                 calls, lastReturn, store, events, mon>>
  /\ UNCHANGED <<busVars, opVars, shareVars, validatorVars, hookVars, realtimeVars>>

\* signIn with a username found in the users table: mock user and mock session
SignInWithUsername(role) ==
  /\ used + 1 <= MaxAuthOps
  /\ used' = used + 1
  /\ auth' = [auth EXCEPT !.user = "mock", !.session = "mock", !.userRole = role]
  /\ lastAuth' = "signIn"
  /\ UNCHANGED signOuts
  /\ UNCHANGED <<now, session, pendingChanges, autoSaveTimeouts, timers,
                 nextHandle, calls, lastReturn, store, events, mon>>
  /\ UNCHANGED <<busVars, opVars, shareVars, validatorVars, hookVars, realtimeVars>>

\* the user signs out
SignOut ==
  /\ used + 1 <= MaxAuthOps
  /\ used' = used + 1
  /\ SignOutCalled(auth, "signOut")
  /\ UNCHANGED <<now, session, pendingChanges, autoSaveTimeouts, timers,
                 nextHandle, calls, lastReturn, store, events, mon>>
  /\ UNCHANGED <<busVars, opVars, shareVars, validatorVars, hookVars, realtimeVars>>

\* accessAsGuest: setIsGuest(true); signOut()
AccessAsGuest ==
  /\ used + 1 <= MaxAuthOps
  /\ used' = used + 1
  /\ SignOutCalled([auth EXCEPT !.isGuest = TRUE], "accessAsGuest")
  /\ UNCHANGED <<now, session, pendingChanges, autoSaveTimeouts, timers,
                 nextHandle, calls, lastReturn, store, events, mon>>
  /\ UNCHANGED <<busVars, opVars, shareVars, validatorVars, hookVars, realtimeVars>>

\* supabase.auth.signOut() resolves for the oldest suspended signOut: the
\* session is gone, the onAuthStateChange callback has run with no session
\* (setSession(null), setUser(null), setUserRole(null)), and signOut resumes
\* with setIsGuest(false)
SignOutResolves ==
  /\ signOuts # <<>>
  /\ session' = FALSE
  /\ auth' = [auth EXCEPT !.user = "none", !.session = "none",
                          !.userRole = "none", !.isGuest = GuestReset(auth)]
  /\ signOuts' = Tail(signOuts)
  /\ lastAuth' = Head(signOuts)
  /\ UNCHANGED <<now, pendingChanges, autoSaveTimeouts, timers, nextHandle,
                 calls, lastReturn, store, events, mon, used>>
  /\ UNCHANGED <<busVars, opVars, shareVars, validatorVars, hookVars, realtimeVars>>

\* any prior auth state: no session, a real session, a mock session
AuthStates ==
  {SignedOut}
    \cup {[user |-> kind, session |-> kind, userRole |-> role, isGuest |-> FALSE] :
            kind \in {"real", "mock"}, role \in Roles}

AuthInit ==
  /\ auth \in AuthStates
  /\ session = (auth.session = "real")
  /\ signOuts = <<>>
  /\ lastAuth = "none"
  /\ ValidatorIdle
  /\ HookIdle
  /\ RealtimeIdle
  /\ now = 0
  /\ pendingChanges = EmptyMap
  /\ autoSaveTimeouts = EmptyMap
  /\ timers = {}
  /\ nextHandle = 1
  /\ calls = <<>>
  /\ lastReturn = NoCall
  /\ store = [a \in Idents |-> NoRow]
  /\ events = <<>>
  /\ mon = [k \in Keys |-> NoMon]
  /\ used = 0
  /\ changeListeners = <<>>
  /\ lastDelivery = NoDelivery
  /\ backups = {}
  /\ localData = EmptyMap
  /\ lastOp = NoOp
  /\ formShares = NoShare
  /\ validations = NoValidations

AuthNext ==
  \/ \E role \in Roles : SignInWithPassword(role)
  \/ \E role \in Roles : SignInWithUsername(role)
  \/ SignOut
  \/ AccessAsGuest
  \/ SignOutResolves

AuthSpec == AuthInit /\ [][AuthNext]_vars

----------------------------------------------------------------------------
(* RealTimeFormService.subscribeToForm / notifyListeners for one form.      *)
(* Every subscribeToForm call runs supabase.channel(`form_${formId}`)       *)
(* .on(..., handler).subscribe(), the handler calling notifyListeners.      *)
(* The client library is not part of the repository; what channel(name)     *)
(* returns for a name that is in use is one of ChannelModes, fixed for a    *)
(* run: "own" a new channel for every call, "shared" the open channel of    *)
(* that name, to which .on adds the handler, "sharedInert" the open channel *)
(* of that name, to which a handler added after subscribe() is never called *)

\* a run has at most MaxSubscriptions subscribeToForm calls and MaxChanges
\* backend changes
MaxSubscriptions == 3
MaxChanges == 2

FormCallbacks == {"cb1", "cb2"}

ChannelModes == {"own", "shared", "sharedInert"}

\* the channel supabase.channel(name) returns: the open one of that name, or
\* a new one
ChannelFor(mode, open, fresh) ==
  IF mode # "own" /\ DOMAIN open # {}
  THEN CHOOSE ch \in DOMAIN open : TRUE
  ELSE fresh

\* the channels after .on(..., handler).subscribe() on channel ch
Bound(mode, open, ch) ==
  IF ch \notin DOMAIN open THEN MapSet(open, ch, 1)
  ELSE IF mode = "shared" THEN MapSet(open, ch, open[ch] + 1)
  ELSE open

\* how often callback occurs in list
RECURSIVE Occurrences(_, _)
Occurrences(list, callback) ==
  IF list = <<>> THEN 0
  ELSE (IF Head(list) = callback THEN 1 ELSE 0) + Occurrences(Tail(list), callback)

\* subscribeToForm(formId, callback): push the callback, open a channel
SubscribeToForm(callback) ==
  /\ Len(subscriptions) < MaxSubscriptions
  /\ formListeners' = Append(formListeners, callback)
  /\ \E ch \in {ChannelFor(channelMode, channels, Len(subscriptions) + 1)} :
       /\ channels' = Bound(channelMode, channels, ch)
       /\ subscriptions' = Append(subscriptions,
                                  [callback |-> callback, channel |-> ch,
                                   live |-> TRUE])
  /\ lastChange' = [lastChange EXCEPT !.stable = @ /\ lastChange.pending = {}]
  /\ UNCHANGED channelMode
  /\ UNCHANGED <<autoVars, busVars, opVars, shareVars, validatorVars, authVars,
                 hookVars>>

\* the unsubscribe function returned by the i-th subscribeToForm call: splice
\* the first occurrence of its callback; if the array is then empty, delete
\* it and unsubscribe the channel of this call
UnsubscribeFromForm(i) ==
  /\ i \in 1..Len(subscriptions)
  /\ subscriptions[i].live
  /\ subscriptions' = [subscriptions EXCEPT ![i].live = FALSE]
  /\ IF formListeners = <<>>
     THEN UNCHANGED <<formListeners, channels>>
     ELSE \E rest \in {Unsubscribed(formListeners, subscriptions[i].callback)} :
            /\ formListeners' = rest
            /\ channels' = IF rest = <<>>
                           THEN MapDelete(channels, subscriptions[i].channel)
                           ELSE channels
  /\ lastChange' = [lastChange EXCEPT !.stable = @ /\ lastChange.pending = {}]
  /\ UNCHANGED channelMode
  /\ UNCHANGED <<autoVars, busVars, opVars, shareVars, validatorVars, authVars,
                 hookVars>>

\* a row of the form changes in the backend: every open channel is sent the
\* postgres_changes payload
BackendChange ==
  /\ lastChange.n < MaxChanges
  /\ lastChange.pending = {}
  /\ lastChange' = [n |-> lastChange.n + 1, listeners |-> formListeners,
                    pending |-> DOMAIN channels,
                    invoked |-> <<>>, stable |-> TRUE]
  /\ UNCHANGED <<channelMode, formListeners, channels, subscriptions>>
  /\ UNCHANGED <<autoVars, busVars, opVars, shareVars, validatorVars, authVars,
                 hookVars>>

\* notifyListeners(formId, payload) run times times: each run calls every
\* callback of the array in order
RECURSIVE NotifyListeners(_, _)
NotifyListeners(list, times) ==
  IF times = 0 THEN <<>> ELSE list \o NotifyListeners(list, times - 1)

\* the payload arrives on channel ch: if the channel is still subscribed,
\* each handler bound to it runs notifyListeners(formId, payload)
ChannelReceives(ch) ==
  /\ ch \in lastChange.pending
  /\ lastChange' = [lastChange EXCEPT
                      !.pending = @ \ {ch},
                      !.invoked = IF MapHas(channels, ch)
                                  THEN @ \o NotifyListeners(formListeners, channels[ch])
                                  ELSE @]
  /\ UNCHANGED <<channelMode, formListeners, channels, subscriptions>>
  /\ UNCHANGED <<autoVars, busVars, opVars, shareVars, validatorVars, authVars,
                 hookVars>>

RealtimeInit ==
  /\ channelMode \in ChannelModes
  /\ formListeners = <<>>
  /\ channels = EmptyMap
  /\ subscriptions = <<>>
  /\ lastChange = NoChange
  /\ ValidatorIdle
  /\ AuthIdle
  /\ HookIdle
  /\ now = 0
  /\ session = TRUE
  /\ pendingChanges = EmptyMap
  /\ autoSaveTimeouts = EmptyMap
  /\ timers = {}
  /\ nextHandle = 1
  /\ calls = <<>>
  /\ lastReturn = NoCall
  /\ store = [a \in Idents |-> NoRow]
  /\ events = <<>>
  /\ mon = [k \in Keys |-> NoMon]
  /\ used = 0
  /\ changeListeners = <<>>
  /\ lastDelivery = NoDelivery
  /\ backups = {}
  /\ localData = EmptyMap
  /\ lastOp = NoOp
  /\ formShares = NoShare
  /\ validations = NoValidations

RealtimeNext ==
  \/ \E callback \in FormCallbacks : SubscribeToForm(callback)
  \/ \E i \in 1..Len(subscriptions) : UnsubscribeFromForm(i)
  \/ BackendChange
  \/ \E ch \in lastChange.pending : ChannelReceives(ch)

RealtimeSpec == RealtimeInit /\ [][RealtimeNext]_vars

----------------------------------------------------------------------------
(* Properties of the store (StoreSpec)                                      *)

\* a saveElement call returns success in this step
SaveSucceeds == CallReturns /\ lastReturn'.result.success

\* what getElement gives the owner for the identity of the call that returned
ReadBack == getElement(TRUE, store'[lastReturn'.ident])

\* text of word characters and inner spaces only, or an object
Plain(v) ==
  \/ v.kind = "obj"
  \/ /\ v.kind = "str"
     /\ v.fill = 0
     /\ Len(v.body) > 0
     /\ \A i \in 1..Len(v.body) : IsWordChar(v.body[i]) \/ v.body[i] = " "
     /\ v.body[1] # " " /\ v.body[Len(v.body)] # " "

\* the row of the identity was soft-deleted before the save wrote it
WasInactive(ident) == store[ident].exists /\ ~store[ident].is_active

BulkStep == lastOp'.op = "bulkSave" /\ used' = used + 2 /\ calls' = calls

\* the backend's validation rejects the update
BackendRejects(u) ==
  ValidationTriggerError(u.ident.elementType,
                         IF u.value.kind = "str" THEN u.value ELSE Null,
                         IF u.value.kind = "obj" THEN u.value ELSE Null) # ""

\* bulkSet([{t,id1,v1},{t,id2,v2}]) by a signed-in owner, where the backend
\* accepts id1 and rejects id2
SecondRejected ==
  /\ BulkStep
  /\ session
  /\ lastOp'.updates[1].ident # lastOp'.updates[2].ident
  /\ ~BackendRejects(lastOp'.updates[1])
  /\ BackendRejects(lastOp'.updates[2])

\* C12 as stated: for bulkSet([{t,id1,v1},{t,id2,v2}]) where the backend
\* rejects id2, savedCount is 1, errors holds the id2 message, the stored and
\* the local value of id1 become v1, and id2 is unchanged.
C12_BulkPartial ==
  [][SecondRejected =>
       LET id1 == lastOp'.updates[1].ident
           id2 == lastOp'.updates[2].ident
       IN /\ lastOp'.result.savedCount = 1
          /\ Len(lastOp'.result.errors) = 1
          /\ getElement(TRUE, store'[id1]) = lastOp'.updates[1].value
          /\ MapGet(localData', Key(id1)) = lastOp'.updates[1].value
          /\ store'[id2] = store[id2]]_vars

\* C12, amended: for bulkSet([{t,id1,v1},{t,id2,v2}]) where the backend rejects
\* id2, the whole batch is undone: success is false, savedCount is 0, errors
\* is the id2 message alone, and the stored rows, the backups and the local
\* values of id1 and id2 are unchanged.
C12_BulkAllOrNothing ==
  [][SecondRejected =>
       /\ lastOp'.result =
            [success |-> FALSE, savedCount |-> 0,
             errors |-> <<"Element value too long. Maximum 10000 characters allowed.">>]
       /\ store' = store
       /\ backups' = backups
       /\ localData' = localData]_vars

\* a batch whose second update was rejected after its first was accepted
C12_Witness ==
  /\ lastOp.op = "bulkSave"
  /\ lastOp.updates[1].ident # lastOp.updates[2].ident
  /\ lastOp.updates[1].value = Hello
  /\ lastOp.updates[2].value = TooLong
  /\ lastOp.result.errors =
       <<"Element value too long. Maximum 10000 characters allowed.">>

\* a deleteElement is called and returns in this step
DeleteStep ==
  /\ lastOp'.op = "deleteElement"
  /\ used' = used + 1
  /\ calls' = calls /\ session' = session /\ changeListeners' = changeListeners

\* the backup table holds the value the row had
BackedUp(table, ident, row) ==
  \E b \in table : /\ b.ident = ident
                   /\ b.element_value = row.element_value
                   /\ b.json_data = row.json_data

\* C13: a deleteElement by a signed-in owner whose update request goes through
\* returns true whether or not the backup copy it attempts failed; the row of
\* an active element is still there afterwards, marked inactive and no longer
\* read by getElement, and the backup table holds the value it had.
C13_SoftDelete ==
  [][DeleteStep /\ session /\ lastOp'.updateError = "" =>
       LET ident == lastOp'.ident IN
       /\ lastOp'.result
       /\ store[ident].exists /\ store[ident].is_active =>
            /\ store'[ident].exists
            /\ ~store'[ident].is_active
            /\ getElement(TRUE, store'[ident]) = Null
            /\ BackedUp(backups', ident, store[ident])]_vars

\* an element was deleted although the backup copy of deleteElement failed
C13_Witness ==
  /\ lastOp.op = "deleteElement"
  /\ lastOp.result
  /\ lastOp.backupError # ""
  /\ lastOp.currentValue = Hello
  /\ store[lastOp.ident].exists
  /\ ~store[lastOp.ident].is_active
  /\ \E b \in backups : b.ident = lastOp.ident /\ b.element_value = Hello

\* one more event, for the element of the call that returned
OneEventPublished ==
  /\ Len(events') = Len(events) + 1
  /\ events'[Len(events')].elementType = lastReturn'.ident.elementType
  /\ events'[Len(events')].elementId = lastReturn'.ident.elementId
  /\ events'[Len(events')].newValue = lastReturn'.value

NothingPublished == events' = events /\ lastDelivery' = lastDelivery

\* no subscribed callback unsubscribes while it handles an event
NoneUnsubscribes(list) == \A k \in 1..Len(list) : ~UnsubscribesItself(list[k])

\* C14 as stated: a saveElement that returns success has published, in the
\* step in which it returns, exactly one event for the saved element and has
\* called every callback subscribed at that moment, in subscription order; a
\* saveElement that returns failure has published nothing, and nothing is
\* published in any other step.
C14_OneEventPerSave ==
  [][/\ SaveSucceeds => OneEventPublished /\ lastDelivery'.invoked = changeListeners
     /\ CallReturns /\ ~lastReturn'.result.success => NothingPublished
     /\ ~CallReturns => NothingPublished]_vars

\* C14 where no subscribed callback unsubscribes during the delivery
C14_OneEventPerSaveIfNoneUnsubscribes ==
  [][/\ SaveSucceeds /\ NoneUnsubscribes(changeListeners)
          => OneEventPublished /\ lastDelivery'.invoked = changeListeners
     /\ SaveSucceeds => OneEventPublished
     /\ CallReturns /\ ~lastReturn'.result.success => NothingPublished
     /\ ~CallReturns => NothingPublished]_vars

\* an event was delivered to two subscribers in subscription order
C14_Witness ==
  /\ lastReturn.pc = "returned"
  /\ lastReturn.result.success
  /\ Len(events) = 1
  /\ lastDelivery.listeners = <<"plain", "thrower">>
  /\ lastDelivery.invoked = <<"plain", "thrower">>

\* an event is published in this step
Publishes == Len(events') = Len(events) + 1

SomeThrows(list) == \E k \in 1..Len(list) : Throws(list[k])

\* the list with every throwing callback replaced by one that returns
Quiet(list) == [k \in 1..Len(list) |-> IF Throws(list[k]) THEN "plain" ELSE list[k]]

\* C15: when an event is delivered and some subscribed callback throws, the
\* save that published it still returns success, the callbacks called are
\* those that would have been called had the callback returned normally, and
\* if no callback unsubscribes during the delivery these are all subscribers.
C15_ExceptionIsContained ==
  [][Publishes /\ SomeThrows(changeListeners) =>
       /\ lastReturn'.result.success
       /\ Quiet(lastDelivery'.invoked) = emitDataChange(Quiet(changeListeners)).invoked
       /\ NoneUnsubscribes(changeListeners) => lastDelivery'.invoked = changeListeners]_vars

\* a callback threw, the subscriber after it was still called, the save succeeded
C15_Witness ==
  /\ lastReturn.pc = "returned"
  /\ lastReturn.result.success
  /\ lastDelivery.listeners = <<"thrower", "plain">>
  /\ lastDelivery.invoked = <<"thrower", "plain">>

\* how many updates of the batch are for the identity
RECURSIVE CountFor(_, _, _)
CountFor(updates, ident, k) ==
  IF k > Len(updates) THEN 0
  ELSE (IF updates[k].ident = ident THEN 1 ELSE 0) + CountFor(updates, ident, k + 1)

\* the row changed in this step
RowChanges(a) == store'[a] # store[a]

\* C20: in every step, no row disappears and no version decreases; a row
\* never changes without its version rising in that same step; the upsert of
\* a saveElement on an existing row raises its version by exactly 1 and a
\* first upsert gives version 1; a bulk update raises the version of each row
\* by the number of upserts it made on it; a soft delete raises it by 1; and
\* an upsert or soft delete of one identity leaves the rows of all others as
\* they were.
C20_VersionPerUpsert ==
  [][/\ \A a \in StoreIdents :
          /\ store[a].exists => store'[a].exists
          /\ store'[a].version >= store[a].version
          /\ RowChanges(a) => store'[a].version > store[a].version
     /\ Publishes =>
          /\ store'[lastReturn'.ident].version = store[lastReturn'.ident].version + 1
          /\ \A b \in StoreIdents \ {lastReturn'.ident} : ~RowChanges(b)
     /\ DeleteStep =>
          /\ lastOp'.result /\ store[lastOp'.ident].exists
               => store'[lastOp'.ident].version = store[lastOp'.ident].version + 1
          /\ \A b \in StoreIdents \ {lastOp'.ident} : ~RowChanges(b)
     /\ BulkStep /\ lastOp'.result.success =>
          \A a \in StoreIdents :
            store'[a].version = store[a].version + CountFor(lastOp'.updates, a, 1)
     /\ ~Publishes /\ ~DeleteStep /\ ~BulkStep => store' = store]_vars

\* a save updated one row to version 2 and a delete took another to version 2
C20_Witness ==
  /\ lastReturn.pc = "returned"
  /\ lastReturn.result.success
  /\ store[lastReturn.ident].version = 2
  /\ lastOp.op = "deleteElement"
  /\ lastOp.result
  /\ lastOp.ident # lastReturn.ident
  /\ store[lastOp.ident].version = 2
  /\ ~store[lastOp.ident].is_active

----------------------------------------------------------------------------
(* Properties of share links (ShareSpec)                                    *)

\* the share record in the row exists, is active and expires after the instant
RecordValid(row, at) ==
  /\ row.exists /\ row.is_active
  /\ row.json_data.body[1] = "true"
  /\ at < ParseDate(row.json_data.body[2])

\* the same for a row of form_shares (no expiry date: never expires)
ShareRowValid(row, at) ==
  /\ row.exists /\ row.is_active
  /\ row.expires_at = NoExpiry \/ at < row.expires_at

LoadSharedFormValidity ==
  lastOp.op = "loadSharedForm" /\ lastOp.session /\ lastOp.form.exists
    => (lastOp.error = "" <=> RecordValid(lastOp.row, lastOp.at))

\* the same for the backend function alone
SqlValidity ==
  lastOp.op = "validate_share_link"
    => (lastOp.is_valid <=> ShareRowValid(lastOp.row, lastOp.at))

C18_ShareLinkCreatedAndRead ==
  [][/\ CallReturns
     /\ lastReturn'.ident = ShareIdent
     /\ lastReturn'.sawSession /\ session
     /\ lastReturn'.result.errors # <<Err("Network error")>>
     => /\ getElement(TRUE, store'[ShareIdent]) = lastReturn'.arg
        /\ ValidateShareLinkError(getElement(TRUE, store'[ShareIdent]), now) = ""]_vars

\* C19 as stated: the access counter of the link equals the number of
\* validations performed on it: that of the share record for validateShareLink,
\* that of the form_shares row for validate_share_link.
C19_AccessCounter ==
  /\ store[ShareIdent].exists
       => AccessCount(store[ShareIdent].json_data) = validations.client
  /\ formShares.exists => formShares.access_count = validations.sql

----------------------------------------------------------------------------
(* Properties of the validator (ValidatorSpec)                              *)

\* the first validateText call produced a non-empty sanitized text
Sanitized == Len(verdicts) >= 1 /\ Truthy(verdicts[1].sanitizedValue)

\* C21: sanitization is idempotent: the sanitizedValue of validateText applied
\* to a (non-empty) sanitizedValue is that same text
C21_Idempotent ==
  (Sanitized /\ Len(verdicts) >= 2)
    => verdicts[2].sanitizedValue = verdicts[1].sanitizedValue

\* a text was sanitized twice and came out the same both times
C21_Witness ==
  /\ Sanitized /\ Len(verdicts) >= 2
  /\ verdicts[1].sanitizedValue # draft
  /\ verdicts[2].sanitizedValue = verdicts[1].sanitizedValue

\* C22: validator round trip: when validateText accepts a text and its
\* sanitized form is not empty, validateText accepts the sanitized form too and
\* the backend trigger does not reject it
C22_RoundTrip ==
  (Sanitized /\ verdicts[1].isValid)
    => /\ Len(verdicts) >= 2 => verdicts[2].isValid
       /\ backendVerdict # NoVerdict => backendVerdict.error = ""

\* an accepted text whose sanitized form both validators accepted
C22_Witness ==
  /\ Sanitized /\ verdicts[1].isValid
  /\ Len(verdicts) >= 2 /\ verdicts[2].isValid
  /\ backendVerdict # NoVerdict /\ backendVerdict.error = ""

----------------------------------------------------------------------------
(* Further properties of the autosave (Spec)                                *)

\* nothing of key k is buffered, scheduled or in flight
Settled(k) ==
  /\ ~MapHas(pendingChanges, k)
  /\ ~TimerScheduled(k)
  /\ \A c \in 1..Len(calls) : calls[c].key # k

\* what the backend holds after a successful saveElement of an issued value
StoredFor(issue) ==
  BackendSanitize(IF issue.validate
                  THEN OrElse(Validation(issue.value).sanitizedValue, issue.value)
                  ELSE issue.value)

\* the value of the row
ValueOf(row) == OrElse(row.json_data, row.element_value)

\* C23: writes to a key are applied in the order they were issued: when
\* nothing of the key is buffered or in flight any more, no save of the key
\* has failed and no edit was cancelled, the backend holds the value of the
\* edit or save issued last for the key
C23_IssueOrder ==
  \A k \in DOMAIN mon :
    (mon[k].last # NoIssue /\ mon[k].clean /\ Settled(k))
      => /\ store[mon[k].last.ident].exists
         /\ ValueOf(store[mon[k].last.ident]) = StoredFor(mon[k].last)

\* an autoSave and a later direct save of the same key have both completed
\* and the backend holds the value issued last
C23_Witness ==
  \E k \in DOMAIN mon :
    /\ mon[k].last # NoIssue /\ mon[k].clean /\ Settled(k)
    /\ mon[k].edits # <<>> /\ "saved" \in mon[k].marks
    /\ Len(events) >= 2
    /\ ValueOf(store[mon[k].last.ident]) = StoredFor(mon[k].last)

\* the timer h is the one autoSaveTimeouts records for its key
Recorded(h) ==
  /\ MapHas(autoSaveTimeouts, timers[h].key)
  /\ autoSaveTimeouts[timers[h].key] = h

\* C24: no dangling timers: every scheduled autosave timer is the handle that
\* autoSaveTimeouts records under its key, and autoSaveTimeouts and
\* pendingChanges have the same keys
C24_NoDanglingTimers ==
  /\ \A h \in DOMAIN timers : Recorded(h)
  /\ DOMAIN autoSaveTimeouts = DOMAIN pendingChanges

\* a timer is scheduled, recorded and its value buffered after a second edit
C24_Witness ==
  /\ \E h \in DOMAIN timers : Recorded(h) /\ h >= 2
  /\ \A h \in DOMAIN timers : Recorded(h)
  /\ DOMAIN autoSaveTimeouts = DOMAIN pendingChanges

----------------------------------------------------------------------------
(* Further properties of the store (StoreSpec)                              *)

\* C25: a soft-deleted element can be brought back: when a saveElement call,
\* made directly or by restoreFromBackup (which then returns true), returns
\* success for an identity that deleteElement had soft-deleted before the call
\* read the element, getElement by the owner gives the value that was saved
C25_BroughtBack ==
  [][(/\ SaveSucceeds
      /\ WasInactive(lastReturn'.ident)
      /\ lastReturn'.sawSession /\ lastReturn'.currentData = Null)
       => ReadBack = lastReturn'.value]_vars

\* a saveElement call awaited by restoreFromBackup has returned success for an
\* element that is soft-deleted
C25_Witness ==
  /\ lastReturn.pc = "returned"
  /\ lastReturn.restore
  /\ lastReturn.result.success
  /\ store[lastReturn.ident].exists /\ ~store[lastReturn.ident].is_active

----------------------------------------------------------------------------
(* Properties of AuthProvider (AuthSpec)                                    *)

\* accessAsGuest and the signOut it called complete in this step
GuestAccessCompletes ==
  /\ lastAuth' = "accessAsGuest"
  /\ \/ signOuts # <<>> /\ signOuts' = Tail(signOuts)
     \/ signOuts' = signOuts /\ used' = used + 1

\* C26: when accessAsGuest and the sign-out it starts have completed, isGuest
\* is true, there is no user and no session, and the portfolio is shown, not
\* the login page
C26_GuestAccess ==
  [][GuestAccessCompletes =>
       /\ auth'.isGuest
       /\ auth'.user = "none" /\ auth'.session = "none"
       /\ ~ShowsLoginPage(auth')]_vars

\* accessAsGuest has completed from a real session: no user, no session
C26_Witness ==
  /\ lastAuth = "accessAsGuest"
  /\ ~session
  /\ auth.user = "none" /\ auth.session = "none"

----------------------------------------------------------------------------
(* Properties of the pending-changes counter (Spec)                         *)

\* no edit is buffered, scheduled or in flight, no save has failed and no
\* buffered edit was cancelled
AllSaved ==
  /\ calls = <<>>
  /\ \A k \in DOMAIN mon : Settled(k) /\ mon[k].clean

\* C27: the pending-changes counter is never negative, and it is 0 whenever no
\* edit is buffered or in flight and every save so far has succeeded
C27_PendingCounter ==
  /\ pendingCount >= 0
  /\ AllSaved => pendingCount = 0

\* edits were counted and the clean-up brought the counter back to 0
C27_Witness ==
  /\ AllSaved
  /\ pendingCount = 0
  /\ \E k \in DOMAIN mon : mon[k].edits # <<>>

----------------------------------------------------------------------------
(* Properties of the realtime form service (RealtimeSpec)                   *)

\* the last backend change has reached every channel, and no subscribeToForm
\* or unsubscribe call was made while it was on its way
Notified ==
  /\ lastChange.n > 0
  /\ lastChange.pending = {}
  /\ lastChange.stable

\* C28: with n >= 1 callbacks registered for the form, a backend change
\* notification invokes each registered callback exactly once (once per
\* registration)
C28_ExactlyOnce ==
  (Notified /\ lastChange.listeners # <<>>)
    => \A callback \in FormCallbacks :
         Occurrences(lastChange.invoked, callback)
           = Occurrences(lastChange.listeners, callback)

\* a change was notified to a single registered callback, once
C28_Witness ==
  /\ Notified
  /\ Len(lastChange.listeners) = 1
  /\ lastChange.invoked = lastChange.listeners

\* every subscribeToForm call has been undone by its unsubscribe function
AllUnsubscribed ==
  /\ subscriptions # <<>>
  /\ \A i \in 1..Len(subscriptions) : ~subscriptions[i].live

\* C29: channels do not leak: when every callback registered for the form has
\* been unsubscribed, every channel opened for the form is closed
C29_NoChannelLeak == AllUnsubscribed => channels = EmptyMap

\* a callback was registered and unsubscribed and its channel is closed
C29_Witness == AllUnsubscribed /\ channels = EmptyMap

----------------------------------------------------------------------------
(* Properties of the change bus under unsubscription (StoreSpec)            *)

\* the callback was subscribed when the delivery of this step started and was
\* not unsubscribed during it
StaysSubscribed(callback) ==
  /\ Occurrences(changeListeners, callback) > 0
  /\ Occurrences(changeListeners', callback) = Occurrences(changeListeners, callback)

\* C30: delivery is robust to unsubscription during delivery: when an event
\* is published, every callback that was subscribed when the delivery started
\* and is not unsubscribed during it is called exactly once (once per
\* subscription), also when a callback unsubscribes while handling the event
C30_RobustDelivery ==
  [][Publishes =>
       \A callback \in Callbacks :
         StaysSubscribed(callback)
           => Occurrences(lastDelivery'.invoked, callback)
                = Occurrences(changeListeners, callback)]_vars

\* a callback unsubscribed itself while handling an event, after the callback
\* subscribed before it had been called
C30_Witness ==
  /\ lastDelivery.listeners = <<"plain", "once">>
  /\ lastDelivery.invoked = <<"plain", "once">>
  /\ Len(events) >= 1

====
